---------------------------- MODULE Spec2Model ----------------------------
(***************************************************************************)
(* A model of the Horus media bridge (src/Scripts/horus_bridge_server.py,  *)
(* src/Scrpts/horus_bridge_server.py) and of the database diagnostic       *)
(* script (src/Scripts/db_dianostic.py).                                   *)
(*                                                                         *)
(* Conventions.  A Python string is a TLA+ string or a sequence of         *)
(* one-character strings; None is the string "None" where the slot holds   *)
(* strings and 0 where it holds a handle.  Database connection handles     *)
(* are counted, not named: bridge.handles says how many handles opened     *)
(* for the shared slot, and how many opened by password probes, are open.  *)
(* The answers of the external collaborators (the PostgreSQL               *)
(* server, the Horus client library, the network) are inputs drawn from    *)
(* small sets.                                                             *)
(***************************************************************************)
EXTENDS Integers, Sequences, FiniteSets, TLC

VARIABLES
    server,     \* which bridge file runs: "Scripts" or "Scrpts"
    bridge,     \* the HorusMediaBridge instance and the handles the process holds open
    env,        \* the database server's answer to each connection-string variant
    resolved,   \* what the last call of the resolver did and returned
    deploy,     \* import-time facts: HORUS_AVAILABLE, the Connection_settings password
    resp,       \* the last HTTP response (or script result)
    store,      \* the recordings table, in the order an unfiltered query returns it
    lookup,     \* what the last recording lookup and frame selection did
    frames      \* the frames table, in the order its rows are stored

vars == <<server, bridge, env, resolved, deploy, resp, store, lookup, frames>>

None == "None"

-----------------------------------------------------------------------------
(* The connection-string resolver.                                         *)

\* The names of the connection_methods list of try_connection_methods.
ConnectionMethods ==
    <<"Standard Format", "Quoted Format", "URI Format", "SSL Disabled", "SSL Prefer">>

\* The names of the connection_methods list of the diagnostic script.
ScriptConnectionMethods ==
    <<"Standard Connection String", "Quoted Connection String", "URI Format">>

\* What one attempt can meet: psycopg2.connect raises (no handle exists), or
\* it returns a handle and the verification query raises, or both succeed.
\* The exception class decides which except clause logs the failure.
Outcomes ==
    {"ok", "connect:OperationalError", "connect:Exception", "query:Error"}

Connected(o) == o \in {"ok", "query:Error"}

\* The except clause that catches the exception of outcome o.
ExceptClause(o) ==
    CASE o = "connect:OperationalError" -> "Operational"
      [] o = "query:Error" -> "PostgreSQL"
      [] OTHER -> "General"

\* The state of the for loop before its first iteration.
LoopStart ==
    [returned |-> FALSE, attempts |-> <<>>, log |-> <<>>,
     opened |-> {}, closed |-> {}, conn |-> 0, method |-> None]

\* One iteration of the loop of try_connection_methods, for the i-th method
\* meeting outcome o: connect, query, close, return; or log the exception
\* and go on.  A handle opened by the i-th attempt is named i.
\* (AttemptNoReturn: the iteration without its return statement.)
AttemptNoReturn(names, i, o, acc) ==
    IF o = "ok"
    THEN [acc EXCEPT !.attempts = Append(@, names[i]),
                     !.opened = @ \cup {i}, !.closed = @ \cup {i},
                     !.conn = i, !.method = names[i]]
    ELSE [acc EXCEPT !.attempts = Append(@, names[i]),
                     !.log = Append(@, [method |-> names[i], clause |-> ExceptClause(o)]),
                     !.opened = IF Connected(o) THEN @ \cup {i} ELSE @]

\* As Attempt, without the last except clause's warning.
AttemptGeneralUnlogged(names, i, o, acc) ==
    IF o = "ok"
    THEN [acc EXCEPT !.returned = TRUE,
                     !.attempts = Append(@, names[i]),
                     !.opened = @ \cup {i}, !.closed = @ \cup {i},
                     !.conn = i, !.method = names[i]]
    ELSE [acc EXCEPT !.attempts = Append(@, names[i]),
                     !.log = IF ExceptClause(o) = "General" THEN @
                             ELSE Append(@, [method |-> names[i], clause |-> ExceptClause(o)]),
                     !.opened = IF Connected(o) THEN @ \cup {i} ELSE @]

Attempt(names, i, o, acc) ==
    IF o = "ok"
    THEN [acc EXCEPT !.returned = TRUE,
                     !.attempts = Append(@, names[i]),
                     !.opened = @ \cup {i}, !.closed = @ \cup {i},
                     !.conn = i, !.method = names[i]]
    ELSE [acc EXCEPT !.attempts = Append(@, names[i]),
                     !.log = Append(@, [method |-> names[i], clause |-> ExceptClause(o)]),
                     !.opened = IF Connected(o) THEN @ \cup {i} ELSE @]

RECURSIVE TryLoop(_, _, _, _)
TryLoop(names, outs, i, acc) ==
    IF i > Len(names) \/ acc.returned
    THEN acc
    ELSE TryLoop(names, outs, i + 1, Attempt(names, i, outs[i], acc))

\* try_connection_methods: the loop, then "return None, None, None" when no
\* iteration returned.
try_connection_methods(outs) == TryLoop(ConnectionMethods, outs, 1, LoopStart)

\* test_database_connection_methods of the diagnostic script.
test_database_connection_methods(outs) ==
    TryLoop(ScriptConnectionMethods, outs, 1, LoopStart)


\* What the resolver leaves behind, as the caller sees it.  ret is the
\* returned triple (conn, conn_str, name); the connection string is
\* represented by the number of the variant that built it.  fin is the set
\* of handles that were dropped without close() and that the runtime has
\* finalised by the time the function exits (an implementation-dependent
\* matter: any subset is possible).
Resolution(names, acc, fin) ==
    [called |-> TRUE, names |-> names,
     attempts |-> acc.attempts, log |-> acc.log,
     opened |-> acc.opened, closed |-> acc.closed, finalised |-> fin,
     ret |-> [conn |-> acc.conn, conn_str |-> acc.conn, method |-> acc.method,
              failures |-> <<>>]]

NotCalled ==
    [called |-> FALSE, names |-> <<>>, attempts |-> <<>>, log |-> <<>>,
     opened |-> {}, closed |-> {}, finalised |-> {},
     ret |-> [conn |-> 0, conn_str |-> 0, method |-> None, failures |-> <<>>]]

\* The handles a resolver call dropped without closing them.
Dropped(acc) == acc.opened \ acc.closed

\* The handles of the last resolver call that are open at its exit.
OpenAtExit == resolved.opened \ (resolved.closed \cup resolved.finalised)

-----------------------------------------------------------------------------
(* Configuration.                                                          *)

\* The number of database handles the model lets the process hold open.
MaxHandles == 3

Fields == {"host", "port", "database", "user", "password"}

\* [field for field in required if not config.get(field)], in list order.
\* The empty string stands for every falsy value (None, "", absent).
MissingFields(required, config) ==
    SelectSeq(required, LAMBDA f : config[f] = "")

\* required_fields of connect_database and of /test-db.
RequiredFields == <<"host", "database", "user">>

\* required_fields of /connect.
ConnectRequiredFields == <<"host", "port", "database", "user", "password">>

-----------------------------------------------------------------------------
(* /test-db of the Scripts bridge.                                         *)

\* "if conn:" and what follows: a query on the returned connection.  A
\* cursor on a closed psycopg2 connection raises InterfaceError, which the
\* handler's outermost except turns into the 500 response.
TestDbAfterResolve(r) ==
    IF r.ret.conn # 0
    THEN IF r.ret.conn \in r.closed
         THEN [route |-> "/test-db", status |-> 500, success |-> FALSE,
               step_failed |-> "unexpected_error", method |-> None, missing |-> <<>>]
         ELSE [route |-> "/test-db", status |-> 200, success |-> TRUE,
               step_failed |-> None, method |-> r.ret.method, missing |-> <<>>]
    ELSE [route |-> "/test-db", status |-> 400, success |-> FALSE,
          step_failed |-> "authentication", method |-> None, missing |-> <<>>]

\* test_network_connectivity: int(port) raises on an empty port, and the
\* function's except clause turns that into (False, message).
NetworkReachable(port, network_ok) == port # "" /\ network_ok

\* A variant that runs both probes whatever the first one says.
TestDbStagesBothProbes(port, network_ok, service_ok) ==
    <<[stage |-> "network_connectivity", ok |-> NetworkReachable(port, network_ok)],
      [stage |-> "postgresql_service", ok |-> service_ok]>>

\* The probes /test-db runs before it tries the connection variants, in the
\* order it runs them, each with its result: the service probe runs only
\* when the network probe has passed.
TestDbStages(port, network_ok, service_ok) ==
    LET net == [stage |-> "network_connectivity", ok |-> NetworkReachable(port, network_ok)]
        svc == [stage |-> "postgresql_service", ok |-> service_ok]
    IN  IF ~net.ok THEN <<net>> ELSE <<net, svc>>

\* A /test-db answer together with the stages the handler ran for it.
WithStages(r, stages) ==
    [f \in DOMAIN r \cup {"stages"} |-> IF f = "stages" THEN stages ELSE r[f]]

TestDb(data) ==
    /\ server = "Scripts"
    /\ LET test_config == [f \in Fields |-> IF data[f] # "" THEN data[f] ELSE bridge.db_config[f]]
           missing == MissingFields(RequiredFields, test_config)
           acc == try_connection_methods(env)
       IN  IF missing # <<>>
           THEN /\ resp' = WithStages([route |-> "/test-db", status |-> 400, success |-> FALSE,
                                       step_failed |-> "missing_fields", method |-> None,
                                       missing |-> missing], <<>>)
                /\ resolved' = NotCalled
           ELSE \E network_ok \in BOOLEAN, service_ok \in BOOLEAN :
                LET probes == TestDbStages(test_config["port"], network_ok, service_ok)
                    last == probes[Len(probes)]
                IN  IF ~last.ok
                    THEN /\ resp' = WithStages([route |-> "/test-db", status |-> 400,
                                                success |-> FALSE, step_failed |-> last.stage,
                                                method |-> None, missing |-> <<>>], probes)
                         /\ resolved' = NotCalled
                    ELSE \E finAll \in BOOLEAN :
                         LET r == Resolution(ConnectionMethods, acc,
                                             IF finAll THEN Dropped(acc) ELSE {})
                         IN  /\ resp' = WithStages(TestDbAfterResolve(r),
                                    Append(probes, [stage |-> "authentication",
                                                    ok |-> r.ret.conn # 0]))
                             /\ resolved' = r
    /\ UNCHANGED <<frames, store, lookup, server, bridge, env, deploy>>

\* main() of the diagnostic script up to the connection-method test.
DiagnosticScript(password) ==
    /\ LET acc == test_database_connection_methods(env)
       IN  IF password = ""
           THEN /\ resp' = [route |-> "db_dianostic", status |-> 0, success |-> FALSE,
                            step_failed |-> "password", method |-> None, missing |-> <<>>]
                /\ resolved' = NotCalled
           ELSE \E network_ok \in BOOLEAN, service_ok \in BOOLEAN :
                IF ~network_ok \/ ~service_ok
                THEN /\ resp' = [route |-> "db_dianostic", status |-> 0, success |-> FALSE,
                                 step_failed |-> IF ~network_ok THEN "network_connectivity"
                                                 ELSE "postgresql_service",
                                 method |-> None, missing |-> <<>>]
                     /\ resolved' = NotCalled
                ELSE \E finAll \in BOOLEAN :
                     /\ resp' = [route |-> "db_dianostic", status |-> 0,
                                 success |-> acc.returned,
                                 step_failed |-> IF acc.returned THEN None ELSE "authentication",
                                 method |-> acc.method, missing |-> <<>>]
                     /\ resolved' = Resolution(ScriptConnectionMethods, acc,
                                               IF finAll THEN Dropped(acc) ELSE {})
    /\ UNCHANGED <<frames, store, lookup, server, bridge, env, deploy>>

\* No recording lookup has run.
NoLookup == [ran |-> FALSE]

\* The requests and configurations the resolver is exercised with.
FieldValues == {"", "v"}
Passwords == {"", "p1", "p2"}
Configs ==
    {c \in [Fields -> FieldValues \cup Passwords] :
        /\ \A f \in Fields \ {"password"} : c[f] \in FieldValues
        /\ c["password"] \in Passwords}

NoResponse ==
    [route |-> None, status |-> 0, success |-> FALSE, step_failed |-> None,
     method |-> None, missing |-> <<>>]

\* The default configuration of HorusMediaBridge.__init__ of the Scripts
\* bridge: every field but the password is set.
DefaultConfig ==
    [f \in Fields |-> IF f = "password" THEN "" ELSE "v"]

\* HorusMediaBridge.__init__: nothing connected, no handle open.
NewBridge(config) ==
    [db_config |-> config, db_connection |-> 0, client |-> 0,
     is_connected |-> FALSE, connection_method |-> None,
     handles |-> [slot |-> 0, probe |-> 0]]

InitResolver ==
    /\ server = "Scripts"
    /\ bridge \in {NewBridge(DefaultConfig),
                   NewBridge([DefaultConfig EXCEPT !["host"] = "", !["port"] = ""])}
    /\ deploy = [horus_available |-> TRUE, settings_password |-> ""]
    /\ env \in [1..Len(ConnectionMethods) -> Outcomes]
    /\ resolved = NotCalled
    /\ store = <<>>
    /\ lookup = NoLookup
    /\ frames = <<>>
    /\ resp = NoResponse

NextResolver ==
    \/ \E data \in {c \in Configs : c["password"] = "" /\ c["database"] = "" /\ c["user"] = ""} :
            TestDb(data)
    \/ \E password \in {"", "p1"} : DiagnosticScript(password)

SpecResolver == InitResolver /\ [][NextResolver]_vars

-----------------------------------------------------------------------------
(* Claims about the resolver, checked under SpecResolver.                  *)

\* The index of the first variant that env lets succeed among the first n
\* variants, or 0 when none does.
FirstOk(n) ==
    IF \E k \in 1..n : env[k] = "ok"
    THEN CHOOSE k \in 1..n : env[k] = "ok" /\ \A j \in 1..(k - 1) : env[j] # "ok"
    ELSE 0

\* C1: the resolver attempts the variants in the order of its fixed list,
\* each at most once per call, and attempts nothing after the first variant
\* that succeeds (both in try_connection_methods and in the diagnostic
\* script's test_database_connection_methods).
C1_OrderedOnceStopAtSuccess ==
    resolved.called =>
        /\ Len(resolved.attempts) <= Len(resolved.names)
        /\ \A k \in 1..Len(resolved.attempts) : resolved.attempts[k] = resolved.names[k]
        /\ \A k \in 1..(Len(resolved.attempts) - 1) : env[k] # "ok"

\* C1 witness: a call whose third variant is the first to succeed.
C1_Witness ==
    /\ resolved.called
    /\ resolved.names = ConnectionMethods
    /\ FirstOk(5) = 3
    /\ env[4] = "ok"
    /\ Len(resolved.attempts) = 3

\* C2 (as claimed): whenever some variant connects, the resolver returns a
\* connection that is still open, obtained with the first variant that
\* succeeds, and /test-db can query it.
C2_ReturnsLiveConnection ==
    (resolved.called /\ resolved.names = ConnectionMethods /\ FirstOk(5) # 0) =>
        /\ resolved.ret.conn = FirstOk(5)
        /\ resolved.ret.conn \in OpenAtExit
        /\ resp.status = 200

\* C3 (as claimed): at exit of the resolver at most one handle opened during
\* the call is still open.
C3_AtMostOneOpenAtExit ==
    resolved.called => Cardinality(OpenAtExit) <= 1

\* Every variant of the last call failed.
AllFailed ==
    /\ resolved.called
    /\ Len(resolved.attempts) = Len(resolved.names)
    /\ \A k \in 1..Len(resolved.names) : env[k] # "ok"

-----------------------------------------------------------------------------
(* The bridge: /connect, /disconnect, /health.                             *)

\* A field a request's section does not carry.
Absent == "absent"

\* As dict.update, with the section taking the place of the stored
\* configuration.
DictReplace(config, section) ==
    [f \in Fields |-> IF section[f] = Absent THEN "" ELSE section[f]]

\* dict.update: the fields the section carries replace the stored ones, the
\* others stay.
DictUpdate(config, section) ==
    [f \in Fields |-> IF section[f] = Absent THEN config[f] ELSE section[f]]

\* psycopg2.connect returned a handle, opened for the shared slot or by a
\* password probe.
Open(hs, who) == [hs EXCEPT ![who] = @ + 1]

\* conn.close() on an open handle.
Close(hs, who) == [hs EXCEPT ![who] = @ - 1]

\* The last reference to an open handle is dropped without close().  Whether
\* the runtime finalises (and so closes) it by then is implementation-
\* dependent: fin says whether it did.
Drop(hs, who, fin) == IF fin THEN Close(hs, who) ELSE hs

\* self.db_connection is overwritten (by a new handle or by None): the
\* handle it held, if any, is dropped.
DropSlot(b, fin) ==
    IF b.db_connection # 0 THEN Drop(b.handles, "slot", fin) ELSE b.handles

\* The four corruption fixes of test_received_password_immediately.  A
\* password is one of a few strings; "p1 " carries a trailing blank, which
\* strip() removes; the other fixes leave these passwords as they are.
Fixes(password) ==
    <<IF password = "p1 " THEN "p1" ELSE password, password, password, password>>

\* What the database answers to the probes of the received password:
\* first is the outcome of the first login, fix the number of the first fix
\* whose login connects (0: none does).
ProbeScenarios ==
    {[first |-> "ok", fix |-> 0]}
    \cup [first : {"connect_fail", "query_fail"}, fix : {0, 1, 4}]

\* As test_received_password_immediately, with the probe's connection kept
\* in self.db_connection, which a failed login leaves None.
test_password_through_slot(b, password, probe, fin) ==
    IF password = ""
    THEN [works |-> FALSE, b |-> b, connects |-> 0]
    ELSE IF probe.first = "ok"
    THEN [works |-> TRUE, b |-> b, connects |-> 1]
    ELSE [works |-> FALSE, b |-> [b EXCEPT !.db_connection = 0], connects |-> 5]

\* test_received_password_immediately on bridge state b.  connects counts
\* the calls of psycopg2.connect.  A first login whose query raises leaves
\* test_conn unclosed.
test_received_password_immediately(b, password, probe, fin) ==
    IF password = ""
    THEN [works |-> FALSE, b |-> b, connects |-> 0]
    ELSE IF probe.first = "ok"
    THEN [works |-> TRUE, b |-> b, connects |-> 1]
    ELSE LET hs == IF probe.first = "query_fail"
                   THEN Drop(Open(b.handles, "probe"), "probe", fin)
                   ELSE b.handles
         IN  IF probe.fix = 0
             THEN [works |-> FALSE, b |-> [b EXCEPT !.handles = hs], connects |-> 5]
             ELSE [works |-> TRUE,
                   b |-> [b EXCEPT !.handles = hs,
                                   !.db_config["password"] = Fixes(password)[probe.fix]],
                   connects |-> 1 + probe.fix]

DbOutcomes == {"ok", "connect_fail", "query_fail"}

\* connect_database of the Scripts bridge (called without argument by
\* /connect): the required-field check, the login with the key=value string,
\* the verification query.  Every except clause sets db_connection = None
\* without closing anything; the assignment of the new handle drops the
\* previous one.
connect_database(b, out, fin) ==
    LET missing == MissingFields(RequiredFields, b.db_config)
    IN  IF missing # <<>> \/ out = "connect_fail"
        THEN [ok |-> FALSE, connects |-> IF missing # <<>> THEN 0 ELSE 1,
              missing |-> missing,
              b |-> [b EXCEPT !.db_connection = 0, !.handles = DropSlot(b, fin)]]
        ELSE IF out = "query_fail"
        THEN [ok |-> FALSE, connects |-> 1, missing |-> <<>>,
              b |-> [b EXCEPT !.db_connection = 0,
                              !.handles = Drop(Open(DropSlot(b, fin), "slot"), "slot", fin)]]
        ELSE [ok |-> TRUE, connects |-> 1, missing |-> <<>>,
              b |-> [b EXCEPT !.db_connection = 1,
                              !.handles = Open(DropSlot(b, fin), "slot"),
                              !.connection_method = "Standard Format (Dynamic)"]]

\* connect_database of the Scrpts bridge: no field check, one except clause.
scrpts_connect_database(b, section, out, fin) ==
    LET config == DictUpdate(b.db_config, section)
    IN  IF out = "connect_fail"
        THEN [ok |-> FALSE,
              b |-> [b EXCEPT !.db_config = config, !.db_connection = 0,
                              !.handles = DropSlot(b, fin)]]
        ELSE IF out = "query_fail"
        THEN [ok |-> FALSE,
              b |-> [b EXCEPT !.db_config = config, !.db_connection = 0,
                              !.handles = Drop(Open(DropSlot(b, fin), "slot"), "slot", fin)]]
        ELSE [ok |-> TRUE,
              b |-> [b EXCEPT !.db_config = config, !.db_connection = 1,
                              !.handles = Open(DropSlot(b, fin), "slot")]]

\* connect_horus: Client(url) either raises or yields a client.  Without the
\* Horus modules (Scripts only) nothing is touched.
connect_horus(b, available, client_ok) ==
    IF ~available
    THEN [ok |-> FALSE, b |-> b]
    ELSE IF client_ok
    THEN [ok |-> TRUE, b |-> [b EXCEPT !.client = 1, !.is_connected = TRUE]]
    ELSE [ok |-> FALSE, b |-> [b EXCEPT !.is_connected = FALSE]]

\* The body of a /connect request: JSON null or an object, with or without
\* a "database" section.
NoSection == [f \in Fields |-> Absent]

ConnectResponse(status, error, missing, horus, database, connects) ==
    [route |-> "/connect", status |-> status, success |-> (status = 200),
     error |-> error, missing |-> missing, horus_connected |-> horus,
     database_connected |-> database, connects |-> connects]

\* debug_received_config: the request carries data with a database section.
debug_received_config(data) == data.json = "object" /\ data.has_database

\* The bound of the model: a request that may open handles is taken only
\* while fewer than MaxHandles of each kind are open.
HandlesLeft(b) == b.handles.slot < MaxHandles /\ b.handles.probe < MaxHandles

\* As connect_after_test, with connect_horus called whatever
\* connect_database returned.
connect_after_test_horus_always(t, out, client_ok, fin) ==
    LET missing == MissingFields(ConnectRequiredFields, t.b.db_config)
    IN  IF missing # <<>>
        THEN [resp |-> ConnectResponse(400, "missing_fields", missing, FALSE, FALSE, t.connects),
              b |-> t.b]
        ELSE LET d == connect_database(t.b, out, fin)
                 c == connect_horus(d.b, deploy.horus_available, client_ok)
             IN  [resp |-> ConnectResponse(200, "none", <<>>, c.ok, d.ok, t.connects + d.connects),
                  b |-> c.b]

\* Steps 4 and 5 of /connect of the Scripts bridge, after the password test
\* t: the field check, connect_database, connect_horus.
connect_after_test(t, out, client_ok, fin) ==
    LET missing == MissingFields(ConnectRequiredFields, t.b.db_config)
    IN  IF missing # <<>>
        THEN [resp |-> ConnectResponse(400, "missing_fields", missing, FALSE, FALSE, t.connects),
              b |-> t.b]
        ELSE LET d == connect_database(t.b, out, fin)
                 c == IF d.ok THEN connect_horus(d.b, deploy.horus_available, client_ok)
                      ELSE [ok |-> FALSE, b |-> d.b]
             IN  [resp |-> ConnectResponse(200, "none", <<>>, c.ok, d.ok, t.connects + d.connects),
                  b |-> c.b]

\* An answer together with what update_config was given: whether it ran
\* with a database section, the section, and the configuration it found.
WithRequest(r, updated, section, before) ==
    [f \in DOMAIN r \cup {"updated", "section", "config_before"} |->
        CASE f = "updated" -> updated
          [] f = "section" -> section
          [] f = "config_before" -> before
          [] OTHER -> r[f]]

\* /connect of the Scripts bridge.
ConnectScripts(data, probes) ==
    /\ server = "Scripts"
    /\ HandlesLeft(bridge)
    /\ IF ~debug_received_config(data)
       THEN /\ resp' = WithRequest(ConnectResponse(400, "invalid_config", <<>>, FALSE, FALSE, 0),
                                   FALSE, NoSection, bridge.db_config)
            /\ bridge' = bridge
       ELSE LET updated == DictUpdate(bridge.db_config, data.database)
                config == IF updated["password"] = "" /\ deploy.settings_password # ""
                          THEN [updated EXCEPT !["password"] = deploy.settings_password]
                          ELSE updated
                b0 == [bridge EXCEPT !.db_config = config]
            IN  IF config["password"] = ""
                THEN /\ resp' = WithRequest(ConnectResponse(400, "no_password", <<>>,
                                                            FALSE, FALSE, 0),
                                            TRUE, data.database, bridge.db_config)
                     /\ bridge' = b0
                ELSE \E probe \in probes, fin \in BOOLEAN :
                     LET t == test_received_password_immediately(b0, config["password"], probe, fin)
                     IN  IF ~t.works
                         THEN /\ resp' = WithRequest(ConnectResponse(400, "password_failed", <<>>,
                                                                     FALSE, FALSE, t.connects),
                                                     TRUE, data.database, bridge.db_config)
                              /\ bridge' = t.b
                         ELSE \E out \in DbOutcomes, client_ok \in BOOLEAN :
                              LET r == connect_after_test(t, out, client_ok, fin)
                              IN  /\ resp' = WithRequest(r.resp, TRUE, data.database,
                                                         bridge.db_config)
                                  /\ bridge' = r.b
    /\ UNCHANGED <<frames, store, lookup, server, env, resolved, deploy>>

\* /connect of the Scrpts bridge: the Horus client first, then the database.
\* With a JSON null body "'horus' in data" raises and the handler answers 500.
ConnectScrpts(data) ==
    /\ server = "Scrpts"
    /\ HandlesLeft(bridge)
    /\ IF data.json = "null"
       THEN /\ resp' = WithRequest(ConnectResponse(500, "exception", <<>>, FALSE, FALSE, 0),
                                   FALSE, NoSection, bridge.db_config)
            /\ bridge' = bridge
       ELSE \E client_ok \in BOOLEAN, out \in DbOutcomes, fin \in BOOLEAN :
            LET section == IF data.has_database THEN data.database ELSE NoSection
                b0 == [bridge EXCEPT !.db_config = DictUpdate(@, section)]
                c == connect_horus(b0, TRUE, client_ok)
                d == scrpts_connect_database(c.b, section, out, fin)
            IN  /\ resp' = WithRequest(ConnectResponse(200, "none", <<>>, c.ok, d.ok, 1),
                                       data.has_database, section, bridge.db_config)
                /\ bridge' = d.b
    /\ UNCHANGED <<frames, store, lookup, server, env, resolved, deploy>>

\* /config of the Scrpts bridge: update_config on the request's body.  On a
\* JSON null body "'database' in config_data" raises inside update_config,
\* which returns False, and the route answers success = False.
Config(data) ==
    /\ server = "Scrpts"
    /\ LET section == IF data.has_database THEN data.database ELSE NoSection
       IN  /\ bridge' = [bridge EXCEPT !.db_config = DictUpdate(@, section)]
           /\ resp' = [route |-> "/config", status |-> 200,
                       success |-> (data.json = "object"),
                       updated |-> data.has_database, section |-> section,
                       config_before |-> bridge.db_config]
    /\ UNCHANGED <<frames, store, lookup, server, env, resolved, deploy>>

\* As disconnect, leaving is_connected as it is.
disconnect_keeps_is_connected(b, close_ok) ==
    LET b1 == IF b.client # 0 THEN [b EXCEPT !.client = 0] ELSE b
    IN  IF b.db_connection # 0 /\ ~close_ok
        THEN [success |-> FALSE, services |-> <<>>, b |-> b1]
        ELSE [success |-> TRUE,
              services |-> (IF b.client # 0 THEN <<"Horus">> ELSE <<>>)
                           \o (IF b.db_connection # 0 THEN <<"Database">> ELSE <<>>),
              b |-> IF b.db_connection # 0
                    THEN [b1 EXCEPT !.db_connection = 0,
                                    !.handles = Close(@, "slot"),
                                    !.connection_method = None]
                    ELSE b1]

\* disconnect (both bridges): drop the client, close and clear the database
\* connection.  close_ok says whether db_connection.close() returns; when it
\* raises, the except clause answers 500 success = False.
disconnect(b, close_ok) ==
    LET b1 == IF b.client # 0
              THEN [b EXCEPT !.client = 0, !.is_connected = FALSE]
              ELSE b
    IN  IF b.db_connection # 0 /\ ~close_ok
        THEN [success |-> FALSE, services |-> <<>>, b |-> b1]
        ELSE [success |-> TRUE,
              services |-> (IF b.client # 0 THEN <<"Horus">> ELSE <<>>)
                           \o (IF b.db_connection # 0 THEN <<"Database">> ELSE <<>>),
              b |-> IF b.db_connection # 0
                    THEN [b1 EXCEPT !.db_connection = 0,
                                    !.handles = Close(@, "slot"),
                                    !.connection_method = None]
                    ELSE b1]

\* As health_check, with the password itself in the config part.
health_check_with_password(b) ==
    [horus_connected |-> b.is_connected,
     database_connected |-> (b.db_connection # 0),
     successful_connection_method |-> b.connection_method,
     config |-> [db_host |-> b.db_config["host"], db_port |-> b.db_config["port"],
                 db_database |-> b.db_config["database"], db_user |-> b.db_config["user"],
                 db_password_set |-> b.db_config["password"]]]

\* The /health payload: the connection state and the database part of
\* "config" (status, timestamp, versions and the Horus URL are left out).
health_check(b) ==
    [horus_connected |-> b.is_connected,
     database_connected |-> (b.db_connection # 0),
     successful_connection_method |-> b.connection_method,
     config |-> [db_host |-> b.db_config["host"], db_port |-> b.db_config["port"],
                 db_database |-> b.db_config["database"], db_user |-> b.db_config["user"],
                 db_password_set |-> (b.db_config["password"] # "")]]

Disconnect(close_ok) ==
    /\ LET r == disconnect(bridge, close_ok)
       IN  /\ resp' = [route |-> "/disconnect", status |-> IF r.success THEN 200 ELSE 500,
                       success |-> r.success, services |-> r.services,
                       slot_before |-> bridge.handles.slot]
           /\ bridge' = r.b
    /\ UNCHANGED <<frames, store, lookup, server, env, resolved, deploy>>

Health ==
    /\ resp' = [route |-> "/health", status |-> 200, success |-> TRUE,
                health |-> health_check(bridge)]
    /\ UNCHANGED <<frames, store, lookup, server, bridge, env, resolved, deploy>>

\* The default configuration of the Scrpts bridge: every field is set.
ScrptsDefaultConfig ==
    [f \in Fields |-> IF f = "password" THEN "p1" ELSE "v"]

\* A /connect body with the given database section.
Body(section) == [json |-> "object", has_database |-> TRUE, database |-> section]

NullBody == [json |-> "null", has_database |-> FALSE, database |-> NoSection]

NoDatabaseBody == [json |-> "object", has_database |-> FALSE, database |-> NoSection]

\* The /connect bodies and probe answers the lifecycle is exercised with.
LifecycleBodies ==
    {NullBody, NoDatabaseBody,
     Body([NoSection EXCEPT !["password"] = "p1"]),
     Body([NoSection EXCEPT !["password"] = ""])}

\* The /config bodies: none, a new host alone, a new host without a value
\* together with a new password.
ConfigBodies ==
    {NullBody, NoDatabaseBody,
     Body([NoSection EXCEPT !["host"] = "h2"]),
     Body([NoSection EXCEPT !["host"] = "", !["password"] = "p2"])}

LifecycleProbes ==
    {[first |-> "ok", fix |-> 0], [first |-> "connect_fail", fix |-> 0],
     [first |-> "query_fail", fix |-> 0], [first |-> "query_fail", fix |-> 1]}

InitBridge ==
    /\ server \in {"Scripts", "Scrpts"}
    /\ bridge = NewBridge(IF server = "Scripts" THEN DefaultConfig ELSE ScrptsDefaultConfig)
    /\ deploy \in [horus_available : IF server = "Scripts" THEN BOOLEAN ELSE {TRUE},
                   settings_password : {""}]
    /\ env = [k \in 1..Len(ConnectionMethods) |-> "ok"]
    /\ resolved = NotCalled
    /\ store = <<>>
    /\ lookup = NoLookup
    /\ frames = <<>>
    /\ resp = NoResponse

NextBridge ==
    \/ \E data \in LifecycleBodies : ConnectScripts(data, LifecycleProbes)
    \/ \E data \in LifecycleBodies : ConnectScrpts(data)
    \/ \E data \in ConfigBodies : Config(data)
    \/ \E close_ok \in BOOLEAN : Disconnect(close_ok)
    \/ Health

SpecBridge == InitBridge /\ [][NextBridge]_vars

\* The /connect bodies, configurations and prior states one request is
\* exercised with.
ConnectSections ==
    {[f \in Fields |-> CASE f = "host" -> h [] f = "port" -> p [] f = "password" -> w
                          [] OTHER -> Absent] :
        h \in {Absent, "", "v"}, p \in {Absent, ""}, w \in {Absent, "", "p1", "p1 "}}

ConnectBodies ==
    {NullBody, NoDatabaseBody} \cup {Body(sec) : sec \in ConnectSections}

\* A bridge whose last /connect succeeded.
ConnectedBridge(config) ==
    [NewBridge(config) EXCEPT !.db_connection = 1, !.client = 1, !.is_connected = TRUE,
                              !.connection_method = "Standard Format (Dynamic)",
                              !.handles = [slot |-> 1, probe |-> 0]]

InitConnect ==
    /\ server = "Scripts"
    /\ \E config \in {c \in Configs : c["password"] # "p2" /\ c["database"] = "v"} :
          bridge \in {NewBridge(config), ConnectedBridge(config)}
    /\ deploy \in [horus_available : BOOLEAN, settings_password : {"", "p1"}]
    /\ env = [k \in 1..Len(ConnectionMethods) |-> "ok"]
    /\ resolved = NotCalled
    /\ store = <<>>
    /\ lookup = NoLookup
    /\ frames = <<>>
    /\ resp = NoResponse

\* One /connect request from each of these states.
NextConnect ==
    /\ resp = NoResponse
    /\ \E data \in ConnectBodies : ConnectScripts(data, ProbeScenarios)

SpecConnect == InitConnect /\ [][NextConnect]_vars

\* The characters of a password of the model.
Chars(password) ==
    CASE password = "p1" -> <<"p", "1">>
      [] password = "p2" -> <<"p", "2">>
      [] password = "p1 " -> <<"p", "1", " ">>
      [] OTHER -> <<>>

\* s[:2] and s[-2:] of Python.
FirstTwo(s) == SubSeq(s, 1, IF Len(s) < 2 THEN Len(s) ELSE 2)
LastTwo(s) == SubSeq(s, IF Len(s) < 2 THEN 1 ELSE Len(s) - 1, Len(s))

\* The "debug_info" part of the /connect payload of the Scripts bridge that
\* ends with answer r on bridge state b (after the request): of the 400
\* answers to a rejected password and to missing fields, and of the 200
\* answer.  The other answers carry nothing of the configuration.
connect_debug_info(r, b) ==
    LET received_password == Chars(b.db_config["password"])
    IN  CASE r.error = "password_failed" ->
               [password_length |-> Len(received_password),
                password_sample |-> FirstTwo(received_password) \o <<"*", "*", "*">>
                                    \o LastTwo(received_password),
                contains_special_chars |->
                    \E i \in 1..Len(received_password) :
                        received_password[i] \in {"$", "%", "@", "#", "&", "*"}]
          [] r.error = "missing_fields" ->
               [field \in Fields |-> b.db_config[field]]
          [] r.error = "none" ->
               [connection_method |-> b.connection_method,
                horus_modules_available |-> deploy.horus_available]
          [] OTHER -> [connection_method |-> None]

\* What the login of /connect meets when the i-th variant of the resolver's
\* list would meet outcome o: /connect logs in with the key=value string of
\* the first variant (without its connect_timeout) and no other.
BareLogin(o) ==
    CASE o = "ok" -> "ok"
      [] o = "query:Error" -> "query_fail"
      [] OTHER -> "connect_fail"

\* The answers to the password probe of /connect in an environment that
\* answers the variants with outs: the altered passwords of a password
\* without white space or escapes are the password itself, and fare alike.
VariantProbes(outs) == {[first |-> BareLogin(outs[1]), fix |-> 0]}

InitVariants ==
    /\ server = "Scripts"
    /\ bridge = NewBridge(DefaultConfig)
    /\ deploy = [horus_available |-> TRUE, settings_password |-> ""]
    /\ env \in [1..Len(ConnectionMethods) -> Outcomes]
    /\ resolved = NotCalled
    /\ store = <<>>
    /\ lookup = NoLookup
    /\ frames = <<>>
    /\ resp = NoResponse

\* One /connect request with a password, against each environment.
NextVariants ==
    /\ resp = NoResponse
    /\ \E data \in {Body([NoSection EXCEPT !["password"] = "p1"]),
                    Body([NoSection EXCEPT !["password"] = "p1", !["host"] = "h2"])} :
          ConnectScripts(data, VariantProbes(env))

SpecVariants == InitVariants /\ [][NextVariants]_vars

-----------------------------------------------------------------------------
(* Claims about the bridge.                                                *)

\* The fields other than the password that the stored configuration lacks.
AbsentFields == MissingFields(<<"host", "port", "database", "user">>, bridge.db_config)

\* C5 (as claimed; SpecConnect): a /connect request that carries a database
\* section and a password, and whose effective configuration lacks one of
\* host, port, database, user, is rejected with an error naming every absent
\* field before any database connection attempt is made.
C5_MissingFieldsRejectedBeforeAnyAttempt ==
    (/\ resp.route = "/connect"
     /\ resp.error \notin {"invalid_config", "no_password"}
     /\ AbsentFields # <<>>)
    => /\ resp.status = 400
       /\ resp.error = "missing_fields"
       /\ \A k \in 1..Len(AbsentFields) :
             \E j \in 1..Len(resp.missing) : resp.missing[j] = AbsentFields[k]
       /\ resp.connects = 0

\* C6 (as claimed; SpecBridge): after any sequence of /connect and
\* /disconnect requests at most one database connection opened for the
\* shared db_connection slot is open.
C6_AtMostOneSlotHandleOpen == bridge.handles.slot <= 1

\* C7 (SpecBridge): after /disconnect returns success the shared database
\* connection is closed and cleared, the client is cleared, is_connected is
\* false, and /health reports database_connected and horus_connected false.
C7_DisconnectReleasesEverything ==
    (resp.route = "/disconnect" /\ resp.success) =>
        /\ bridge.db_connection = 0
        /\ bridge.client = 0
        /\ bridge.is_connected = FALSE
        /\ health_check(bridge).horus_connected = FALSE
        /\ health_check(bridge).database_connected = FALSE
        /\ bridge.handles.slot =
              resp.slot_before - (IF "Database" \in {resp.services[k] : k \in 1..Len(resp.services)}
                                  THEN 1 ELSE 0)

\* C7 witness: a successful /disconnect of a bridge that held both a client
\* and a database connection.
C7_Witness ==
    /\ resp.route = "/disconnect"
    /\ resp.success
    /\ resp.services = <<"Horus", "Database">>
    /\ resp.slot_before >= 1

-----------------------------------------------------------------------------
(* The recording lookup of /images (src/Scripts/horus_bridge_server.py).   *)
(* A string is a sequence of characters; every path segment is one letter. *)

MaxRecordings == 2
MaxFrames == 2

Backslash == "\\"

\* str.lower(), on the letters the model uses.
LowerChar(c) == CASE c = "C" -> "c" [] c = "R" -> "r" [] c = "L" -> "l" [] OTHER -> c

lower(s) == [k \in 1..Len(s) |-> LowerChar(s[k])]

\* s.split('\\')[-1]: what follows the last backslash, all of s when it has none.
split_last(s) ==
    LET cuts == {k \in 1..Len(s) : s[k] = Backslash}
        last == IF cuts = {} THEN 0 ELSE CHOOSE k \in cuts : \A j \in cuts : j <= k
    IN  SubSeq(s, last + 1, Len(s))

\* s.replace('\\', '\\\\'): every backslash doubled.
RECURSIVE replace_double(_)
replace_double(s) ==
    IF s = <<>> THEN <<>>
    ELSE (IF Head(s) = Backslash THEN <<Backslash, Backslash>> ELSE <<Head(s)>>)
         \o replace_double(Tail(s))

\* a in b, for Python strings.
contains(a, b) == \E i \in 0..(Len(b) - Len(a)) : SubSeq(b, i + 1, i + Len(a)) = a

\* The literal a LIKE pattern stands for when backslash is the escape
\* character; a pattern that ends in a lone escape has none (dangling).
RECURSIVE Unescape(_, _, _)
Unescape(p, i, acc) ==
    IF i > Len(p) THEN [dangling |-> FALSE, lit |-> acc]
    ELSE IF p[i] = Backslash
         THEN IF i = Len(p) THEN [dangling |-> TRUE, lit |-> acc]
              ELSE Unescape(p, i + 2, Append(acc, p[i + 1]))
         ELSE Unescape(p, i + 1, Append(acc, p[i]))

\* The least element of a set of indexes, 0 when it is empty: next(it, None).
FirstIndex(S) == IF S = {} THEN 0 ELSE CHOOSE i \in S : \A j \in S : i <= j

\* next(Recording.query(recordings, directory_like=pat), None).  The query
\* is the database library's; like says how it matches (whether backslash
\* escapes, whether the pattern is wrapped in wildcards), err whether this
\* call raises, null_all whether a None filter selects every row.
directory_like(recs, like, pat, err, null_all) ==
    IF err THEN [raised |-> TRUE, rec |-> 0]
    ELSE IF pat.null
    THEN [raised |-> FALSE, rec |-> IF null_all /\ Len(recs) > 0 THEN 1 ELSE 0]
    ELSE LET u == IF like.escape THEN Unescape(pat.str, 1, <<>>)
                  ELSE [dangling |-> FALSE, lit |-> pat.str]
             hits == {i \in 1..Len(recs) :
                         IF like.wrap THEN contains(u.lit, recs[i].directory)
                         ELSE u.lit = recs[i].directory}
         IN  IF u.dangling
             THEN [raised |-> ~like.wrap, rec |-> 0]
             ELSE [raised |-> FALSE, rec |-> FirstIndex(hits)]

\* The sets of methods whose query raises in one request: none, one alone,
\* or every query from some method on (a failed statement leaves the
\* shared connection refusing the statements that follow).
QueryFailures == {{}} \cup {{n} : n \in 1..4} \cup {n..4 : n \in 1..4}

\* The locals of the lookup before Method 1: recording = None,
\* search_attempts = []; queries lists the calls made to the library.
LookupStart ==
    [recording |-> 0, search_attempts |-> <<>>, queries |-> <<>>, crashed |-> FALSE]

Str(s) == [null |-> FALSE, str |-> s]

Null == [null |-> TRUE, str |-> <<>>]

\* One try block of Methods 1 to 3: the query, then the SUCCESS, FAILED or
\* ERROR entry.
LikeQuery(recs, q, n, pat, L) ==
    LET r == directory_like(recs, q.like, pat, n \in q.err, q.null_all)
    IN  [L EXCEPT !.recording = r.rec,
                  !.queries = Append(@, [strategy |-> n, filtered |-> TRUE, pattern |-> pat]),
                  !.search_attempts =
                      Append(@, [strategy |-> n,
                                 outcome |-> IF r.raised THEN "ERROR"
                                             ELSE IF r.rec # 0 THEN "SUCCESS" ELSE "FAILED"])]

\* Method 1: the endpoint as received.
Method1(recs, q, ep, L) == LikeQuery(recs, q, 1, ep, L)

\* Method 2: the final path segment.  On an endpoint that is not a string
\* split raises, and the except clause reads dir_name before it was bound.
Method2(recs, q, ep, L) ==
    IF L.recording # 0 \/ L.crashed THEN L
    ELSE IF ep.null THEN [L EXCEPT !.crashed = TRUE]
    ELSE LikeQuery(recs, q, 2, Str(split_last(ep.str)), L)

\* Method 3 without its "if not recording" guard.
Method3Unguarded(recs, q, ep, L) ==
    IF L.crashed THEN L
    ELSE IF ep.null THEN [L EXCEPT !.crashed = TRUE]
    ELSE LikeQuery(recs, q, 3, Str(replace_double(ep.str)), L)

\* Method 3: the endpoint with every backslash doubled.
Method3(recs, q, ep, L) ==
    IF L.recording # 0 \/ L.crashed THEN L
    ELSE IF ep.null THEN [L EXCEPT !.crashed = TRUE]
    ELSE LikeQuery(recs, q, 3, Str(replace_double(ep.str)), L)

\* The recordings Method 4's scan accepts for the lower-cased final segment
\* target: setup loads, the directory is not empty, and one final segment
\* contains the other.
PartialMatches(recs, target) ==
    {i \in 1..Len(recs) :
        /\ recs[i].setup_ok
        /\ recs[i].directory # <<>>
        /\ LET rec_name == lower(split_last(recs[i].directory))
           IN  contains(target, rec_name) \/ contains(rec_name, target)}

\* Method 4 taking the last recording its scan accepts, not the first.
Method4LastMatch(recs, q, ep, L) ==
    IF L.recording # 0 \/ L.crashed THEN L
    ELSE LET asked == [L EXCEPT !.queries = Append(@, [strategy |-> 4, filtered |-> FALSE,
                                                       pattern |-> Null])]
             hits == PartialMatches(recs, lower(split_last(ep.str)))
             found == IF hits = {} THEN 0 ELSE CHOOSE i \in hits : \A j \in hits : j <= i
         IN  IF 4 \in q.err \/ ep.null
             THEN [asked EXCEPT !.search_attempts = Append(@, [strategy |-> 4, outcome |-> "ERROR"])]
             ELSE [asked EXCEPT !.recording = found,
                                !.search_attempts =
                                    Append(@, [strategy |-> 4,
                                               outcome |-> IF found # 0 THEN "SUCCESS"
                                                           ELSE "FAILED"])]

\* Method 4: an unfiltered query, then a scan for the first recording whose
\* final segment matches the endpoint's, case-insensitively, either way.
Method4(recs, q, ep, L) ==
    IF L.recording # 0 \/ L.crashed THEN L
    ELSE LET asked == [L EXCEPT !.queries = Append(@, [strategy |-> 4, filtered |-> FALSE,
                                                       pattern |-> Null])]
             found == FirstIndex(PartialMatches(recs, lower(split_last(ep.str))))
         IN  IF 4 \in q.err \/ ep.null
             THEN [asked EXCEPT !.search_attempts = Append(@, [strategy |-> 4, outcome |-> "ERROR"])]
             ELSE [asked EXCEPT !.recording = found,
                                !.search_attempts =
                                    Append(@, [strategy |-> 4,
                                               outcome |-> IF found # 0 THEN "SUCCESS"
                                                           ELSE "FAILED"])]

\* The four methods in the order of the handler.
find_recording(recs, q, ep) ==
    Method4(recs, q, ep, Method3(recs, q, ep, Method2(recs, q, ep,
        Method1(recs, q, ep, LookupStart))))

\* data.get('recording_endpoint', 'Rotterdam360\\Ladybug5plus')
DefaultEndpoint == Str(<<"R", Backslash, "L">>)

Endpoint(data) ==
    IF data.recording_endpoint.given THEN data.recording_endpoint.value ELSE DefaultEndpoint

\* The payload of an /images answer.  message is the Message of a 200
\* answer: its wording and the one number it names.
ImagesResponse(status, success, attempts, recording, images) ==
    [route |-> "/images", status |-> status, success |-> success,
     search_attempts |-> attempts, recording |-> recording, images |-> images,
     message |-> IF status # 200 THEN [text |-> "none"]
                 ELSE [text |-> "Retrieved", retrieved |-> Len(images)]]

\* An error answer in place of "No frames found for this recording".
NoFramesError(recording) == ImagesResponse(404, FALSE, <<>>, 0, <<>>)

\* The answer "No frames found for this recording" of the Scripts bridge.
NoFramesResponse(recording) ==
    [ImagesResponse(200, TRUE, <<>>, recording, <<>>) EXCEPT
        !.message = [text |-> "No frames found"]]

-----------------------------------------------------------------------------
(* Frame selection and image fetching.                                     *)

\* frame.timestamp is None.
NoTimestamp == -1

\* The last instant of the modelled time line.
MaxTime == 4

\* The rows of recording rid, by their position in the table.
RowsOf(tbl, rid) == {i \in 1..Len(tbl) : tbl[i].recordingid = rid}

\* The value the database orders a row by; rows without a timestamp come
\* last.
SortKey(row, order_by) ==
    IF order_by = "index" THEN row.index
    ELSE IF row.timestamp = NoTimestamp THEN MaxTime + 1 ELSE row.timestamp

\* Frame.query(frames, recordingid=rid, order_by=...): the orders in which
\* the rows of recording rid can come back, sorted on the ordering column
\* (rows equal on that column come in any order).
Frame_query(tbl, rid, order_by) ==
    LET rows == RowsOf(tbl, rid)
        n == Cardinality(rows)
        sorted == {q \in [1..n -> rows] :
                      /\ \A x, y \in 1..n : x # y => q[x] # q[y]
                      /\ \A x \in 1..(n - 1) :
                            SortKey(tbl[q[x]], order_by) <= SortKey(tbl[q[x + 1]], order_by)}
    IN  {[k \in 1..n |-> tbl[q[k]]] : q \in sorted}

\* The last count rows of the scan, not the first.
islice_tail(scan, count) ==
    SubSeq(scan, (IF count < Len(scan) THEN Len(scan) - count ELSE 0) + 1, Len(scan))

\* list(itertools.islice(scan, count)) for count >= 0.
islice(scan, count) == SubSeq(scan, 1, IF count < Len(scan) THEN count ELSE Len(scan))

\* base64 over bytes 0..255; a character is its index in the base64
\* alphabet, Pad stands for "=".
Pad == 64

RECURSIVE b64encode(_)
b64encode(bs) ==
    IF Len(bs) = 0 THEN <<>>
    ELSE IF Len(bs) = 1
    THEN <<bs[1] \div 4, (bs[1] % 4) * 16, Pad, Pad>>
    ELSE IF Len(bs) = 2
    THEN <<bs[1] \div 4, (bs[1] % 4) * 16 + bs[2] \div 16, (bs[2] % 16) * 4, Pad>>
    ELSE <<bs[1] \div 4, (bs[1] % 4) * 16 + bs[2] \div 16,
           (bs[2] % 16) * 4 + bs[3] \div 64, bs[3] % 64>>
         \o b64encode(SubSeq(bs, 4, Len(bs)))

\* image.save(buffer, format="JPEG"); buffer.getvalue(): the encoder frames
\* the image data between the start and end markers.
JpegEncode(pixels) == <<255, 216>> \o pixels \o <<255, 217>>

\* One entry of the Data list.
ImageResult(i, bytes, frame) ==
    [Index |-> i - 1, Data |-> b64encode(bytes), Format |-> "image/jpeg",
     Timestamp |-> frame.timestamp]

\* What the SDK hands back for one frame: kind is "raise" (the frame query,
\* set_frame or acquire raises), "no_image" (acquire returns None),
\* "get_image_raises", "BytesIO", "bytes", "Image" (an object with save;
\* ok says whether save returns), "getvalue" (another object with a
\* getvalue method; ok says whether it returns bytes), "other".
SdkResult(kind, bytes, ok) == [kind |-> kind, bytes |-> bytes, ok |-> ok]

Produced(i, bytes, frame, logged) ==
    [produced |-> TRUE, result |-> ImageResult(i, bytes, frame), logged |-> logged]

Skipped(logged) == [produced |-> FALSE, logged |-> logged]

\* As process_frame, with the unknown-type branch skipping the frame at once.
process_frame_strict(i, frame, a) ==
    CASE a.kind = "raise" -> Skipped("frame_ex")
      [] a.kind = "no_image" -> Skipped("no_image")
      [] a.kind = "get_image_raises" -> Skipped("get_image_ex")
      [] a.kind = "BytesIO" -> Produced(i, a.bytes, frame, "none")
      [] a.kind = "bytes" -> Produced(i, a.bytes, frame, "none")
      [] a.kind = "Image" -> IF a.ok THEN Produced(i, JpegEncode(a.bytes), frame, "none")
                             ELSE Skipped("img_ex")
      [] OTHER -> Skipped("unknown_type")

\* The body of the loop over the selected frames in the Scripts bridge, for
\* the i-th selected frame and the SDK's answer a.  Every failure is logged
\* and the frame skipped; an object of unknown type is logged with its type
\* and then, when it has getvalue, encoded like a stream.
process_frame(i, frame, a) ==
    CASE a.kind = "raise" -> Skipped("frame_ex")
      [] a.kind = "no_image" -> Skipped("no_image")
      [] a.kind = "get_image_raises" -> Skipped("get_image_ex")
      [] a.kind = "BytesIO" -> Produced(i, a.bytes, frame, "none")
      [] a.kind = "bytes" -> Produced(i, a.bytes, frame, "none")
      [] a.kind = "Image" -> IF a.ok THEN Produced(i, JpegEncode(a.bytes), frame, "none")
                             ELSE Skipped("img_ex")
      [] a.kind = "getvalue" -> IF a.ok THEN Produced(i, a.bytes, frame, "unknown_type")
                                ELSE Skipped("unknown_type")
      [] OTHER -> Skipped("unknown_type")

\* The body of the loop in the Scrpts bridge: communication.image is saved
\* as JPEG; anything that cannot be saved raises and the frame is skipped.
scrpts_process_frame(i, frame, a) ==
    IF a.kind = "Image" /\ a.ok
    THEN Produced(i, JpegEncode(a.bytes), frame, "none")
    ELSE Skipped("frame_ex")

\* As fetch_frames, leaving the loop at the first frame that fails.
fetch_frames_break(temp, answers, scrpts) ==
    LET outs == [k \in 1..Len(temp) |->
                    IF scrpts THEN scrpts_process_frame(k, temp[k], answers[k])
                    ELSE process_frame(k, temp[k], answers[k])]
        kept == SelectSeq([k \in 1..Len(temp) |-> k],
                          LAMBDA k : \A j \in 1..k : outs[j].produced)
    IN  [images |-> [j \in 1..Len(kept) |-> outs[kept[j]].result],
         logged |-> [k \in 1..Len(temp) |-> outs[k].logged]]

\* The loop over the selected frames: the images produced, in order, and
\* what was logged for each frame.
fetch_frames(temp, answers, scrpts) ==
    LET outs == [k \in 1..Len(temp) |->
                    IF scrpts THEN scrpts_process_frame(k, temp[k], answers[k])
                    ELSE process_frame(k, temp[k], answers[k])]
        kept == SelectSeq([k \in 1..Len(temp) |-> k], LAMBDA k : outs[k].produced)
    IN  [images |-> [j \in 1..Len(kept) |-> outs[kept[j]].result],
         logged |-> [k \in 1..Len(temp) |-> outs[k].logged]]

\* What the lookup and the selection of one request did.
Seen(L, ep, err, count, temp, answers, logged) ==
    [ran |-> TRUE, endpoint |-> ep, err |-> err, count |-> count,
     recording |-> L.recording, search_attempts |-> L.search_attempts,
     queries |-> L.queries, crashed |-> L.crashed,
     selected |-> temp, answers |-> answers, logged |-> logged]

\* /images of the Scripts bridge.  answers is the set the SDK's answers
\* for the selected frames are drawn from.
Images(data, answers) ==
    /\ server = "Scripts"
    /\ IF ~deploy.horus_available
       THEN /\ resp' = ImagesResponse(503, FALSE, <<>>, 0, <<>>)
            /\ lookup' = NoLookup
       ELSE IF data.json = "null"
       THEN /\ resp' = ImagesResponse(500, FALSE, <<>>, 0, <<>>)
            /\ lookup' = NoLookup
       ELSE IF bridge.client = 0 \/ ~bridge.is_connected \/ bridge.db_connection = 0
       THEN /\ resp' = ImagesResponse(500, FALSE, <<>>, 0, <<>>)
            /\ lookup' = NoLookup
       ELSE \E err \in QueryFailures, null_all \in IF Endpoint(data).null THEN BOOLEAN ELSE {FALSE} :
            LET ep == Endpoint(data)
                L == find_recording(store, [like |-> env, err |-> err, null_all |-> null_all], ep)
            IN  IF L.crashed
                THEN /\ resp' = ImagesResponse(500, FALSE, <<>>, 0, <<>>)
                     /\ lookup' = Seen(L, ep, err, data.count, <<>>, <<>>, <<>>)
                ELSE IF L.recording = 0
                THEN /\ resp' = ImagesResponse(404, FALSE, L.search_attempts, 0, <<>>)
                     /\ lookup' = Seen(L, ep, err, data.count, <<>>, <<>>, <<>>)
                ELSE IF ~store[L.recording].setup_ok \/ data.count < 0
                THEN /\ resp' = ImagesResponse(500, FALSE, <<>>, 0, <<>>)
                     /\ lookup' = Seen(L, ep, err, data.count, <<>>, <<>>, <<>>)
                ELSE \E scan \in Frame_query(frames, L.recording, "index") :
                     LET temp == islice(scan, data.count)
                     IN  IF Len(temp) = 0
                         THEN /\ resp' = NoFramesResponse(L.recording)
                              /\ lookup' = Seen(L, ep, err, data.count, temp, <<>>, <<>>)
                         ELSE \E ans \in [1..Len(temp) -> answers] :
                              LET f == fetch_frames(temp, ans, FALSE)
                              IN  /\ resp' = ImagesResponse(200, TRUE, <<>>, L.recording, f.images)
                                  /\ lookup' = Seen(L, ep, err, data.count, temp, ans, f.logged)
    /\ UNCHANGED <<server, bridge, env, resolved, deploy, store, frames>>

\* The directories and recordings the store is filled with.
Dir_aC == <<"a", Backslash, "C">>
Dir_bC == <<"b", Backslash, "C">>
Dir_ac == <<"a", Backslash, "c">>

Recording(directory, setup_ok, nframes) ==
    [directory |-> directory, setup_ok |-> setup_ok, frames |-> nframes]

StoredRecordings ==
    {Recording(Dir_aC, TRUE, MaxFrames), Recording(Dir_aC, FALSE, MaxFrames),
     Recording(Dir_bC, TRUE, MaxFrames), Recording(Dir_ac, TRUE, MaxFrames),
     Recording(<<"C">>, TRUE, 0),
     Recording(<<>>, TRUE, MaxFrames), Recording(DefaultEndpoint.str, TRUE, MaxFrames)}

Stores == UNION {[1..n -> StoredRecordings] : n \in 0..MaxRecordings}

\* A row of the frames table.
Row(recordingid, index, timestamp) ==
    [recordingid |-> recordingid, index |-> index, timestamp |-> timestamp]

\* The frames table that holds, for each recording of recs from the i-th
\* on, as many frames as the recording says, numbered from 1.
RECURSIVE TableOf(_, _)
TableOf(recs, i) ==
    IF i > Len(recs) THEN <<>>
    ELSE [k \in 1..recs[i].frames |-> Row(i, k, k)] \o TableOf(recs, i + 1)

\* The SDK's answer the lookup is exercised with: an image for every frame.
LookupAnswers == {SdkResult("bytes", <<255>>, TRUE)}

\* The recording_endpoint values of the requests.
Given(ep) == [given |-> TRUE, value |-> ep]

Endpoints ==
    {[given |-> FALSE, value |-> Null], Given(Null),
     Given(Str(<<"C">>)), Given(Str(<<"c">>)), Given(Str(<<"b">>)), Given(Str(<<>>)),
     Given(Str(Dir_aC)), Given(Str(Dir_bC)), Given(Str(replace_double(Dir_aC))),
     Given(Str(<<"C", Backslash>>))}

ImagesBodies ==
    {[json |-> "null", recording_endpoint |-> Given(Null), count |-> 0]} \cup
    {[json |-> "object", recording_endpoint |-> e, count |-> c] :
        e \in Endpoints, c \in {0, MaxFrames}}

InitImages ==
    /\ server = "Scripts"
    /\ store \in Stores
    /\ bridge \in {ConnectedBridge(DefaultConfig)} \cup
                  (IF store = <<>> THEN {NewBridge(DefaultConfig)} ELSE {})
    /\ deploy \in [horus_available : IF store = <<>> THEN BOOLEAN ELSE {TRUE},
                   settings_password : {""}]
    /\ env \in [escape : BOOLEAN, wrap : BOOLEAN]
    /\ resolved = NotCalled
    /\ resp = NoResponse
    /\ lookup = NoLookup
    /\ frames = TableOf(store, 1)

\* One /images request from each of these states.
NextImages ==
    /\ resp = NoResponse
    /\ \E data \in ImagesBodies : Images(data, LookupAnswers)

SpecImages == InitImages /\ [][NextImages]_vars

-----------------------------------------------------------------------------
(* /images and /image/<endpoint>/<timestamp> of the Scrpts bridge, and the *)
(* states frame selection and image fetching are exercised from.           *)

\* The one query of the Scrpts lookup, as a lookup record.
ScrptsLookup(r, ep) ==
    [recording |-> r.rec, crashed |-> FALSE,
     search_attempts |-> <<>>,
     queries |-> <<[strategy |-> 1, filtered |-> TRUE, pattern |-> ep]>>]

\* /images of the Scrpts bridge: route get_images and bridge.get_images.
\* Every exception of the method is re-raised and answered 500 by the route.
ImagesScrpts(data, answers) ==
    /\ server = "Scrpts"
    /\ IF data.json = "null"
       THEN /\ resp' = ImagesResponse(500, FALSE, <<>>, 0, <<>>)
            /\ lookup' = NoLookup
       ELSE IF bridge.client = 0 \/ ~bridge.is_connected \/ bridge.db_connection = 0
       THEN /\ resp' = ImagesResponse(500, FALSE, <<>>, 0, <<>>)
            /\ lookup' = NoLookup
       ELSE \E err \in BOOLEAN, null_all \in IF Endpoint(data).null THEN BOOLEAN ELSE {FALSE} :
            LET ep == Endpoint(data)
                r == directory_like(store, env, ep, err, null_all)
                L == ScrptsLookup(r, ep)
                errs == IF err THEN {1} ELSE {}
            IN  IF r.raised \/ r.rec = 0
                THEN /\ resp' = ImagesResponse(500, FALSE, <<>>, 0, <<>>)
                     /\ lookup' = Seen(L, ep, errs, data.count, <<>>, <<>>, <<>>)
                ELSE IF ~store[r.rec].setup_ok \/ data.count < 0
                THEN /\ resp' = ImagesResponse(500, FALSE, <<>>, 0, <<>>)
                     /\ lookup' = Seen(L, ep, errs, data.count, <<>>, <<>>, <<>>)
                ELSE \E scan \in Frame_query(frames, r.rec, "index") :
                     LET temp == islice(scan, data.count)
                     IN  \E ans \in [1..Len(temp) -> answers] :
                         LET f == fetch_frames(temp, ans, TRUE)
                         IN  /\ resp' = ImagesResponse(200, TRUE, <<>>, r.rec, f.images)
                             /\ lookup' = Seen(L, ep, errs, data.count, temp, ans, f.logged)
    /\ UNCHANGED <<server, bridge, env, resolved, deploy, store, frames>>

\* abs() of a difference of two instants.
Abs(x) == IF x < 0 THEN -x ELSE x

\* min_diff = None, selected_frame = None.
NearestStart == [min_diff |-> -1, selected |-> 0]

\* One pass of the scan loop, keeping a later frame of equal difference.
NearestStepLastWins(frame, k, target, acc) ==
    IF frame.timestamp = NoTimestamp THEN acc
    ELSE LET diff == Abs(frame.timestamp - target)
         IN  IF acc.min_diff = -1 \/ diff <= acc.min_diff
             THEN [min_diff |-> diff, selected |-> k]
             ELSE acc

\* One pass of the scan loop, measuring the signed difference.
NearestStepSigned(frame, k, target, acc) ==
    IF frame.timestamp = NoTimestamp THEN acc
    ELSE LET diff == frame.timestamp - target
         IN  IF acc.selected = 0 \/ diff < acc.min_diff
             THEN [min_diff |-> diff, selected |-> k]
             ELSE acc

\* One pass of the scan loop, taking a frame without timestamp at instant 0.
NearestStepNullAsZero(frame, k, target, acc) ==
    LET diff == Abs((IF frame.timestamp = NoTimestamp THEN 0 ELSE frame.timestamp) - target)
    IN  IF acc.min_diff = -1 \/ diff < acc.min_diff
        THEN [min_diff |-> diff, selected |-> k]
        ELSE acc

\* One pass of the scan loop of get_image_by_timestamp for the k-th frame
\* of the scan: a frame without timestamp is passed over; a frame strictly
\* nearer to the target than the nearest so far replaces it.
NearestStep(frame, k, target, acc) ==
    IF frame.timestamp = NoTimestamp THEN acc
    ELSE LET diff == Abs(frame.timestamp - target)
         IN  IF acc.min_diff = -1 \/ diff < acc.min_diff
             THEN [min_diff |-> diff, selected |-> k]
             ELSE acc

RECURSIVE NearestLoop(_, _, _, _)
NearestLoop(scan, k, target, acc) ==
    IF k > Len(scan) THEN acc
    ELSE NearestLoop(scan, k + 1, target, NearestStep(scan[k], k, target, acc))

\* The position in the scan of the frame the loop selects, 0 for None.
select_nearest(scan, target) == NearestLoop(scan, 1, target, NearestStart).selected

\* The answer of /image/<endpoint>/<timestamp>.
TimestampResponse(status, error, image) ==
    [route |-> "/image", status |-> status, success |-> (status = 200),
     error |-> error, image |-> image]

\* What one nearest-timestamp request did.
SeenNearest(ep, recording, target, scan, selected) ==
    [ran |-> TRUE, endpoint |-> ep, recording |-> recording, target |-> target,
     scan |-> scan, selected |-> selected]

\* /image/<endpoint>/<timestamp> of the Scrpts bridge: route
\* get_image_by_timestamp and bridge.get_image_by_timestamp.  target.valid
\* says whether datetime.fromisoformat accepts the timestamp.
ImageByTimestamp(ep, target, answers) ==
    /\ server = "Scrpts"
    /\ IF bridge.client = 0 \/ ~bridge.is_connected \/ bridge.db_connection = 0
       THEN /\ resp' = TimestampResponse(500, "not_connected", <<>>)
            /\ lookup' = NoLookup
       ELSE \E err \in BOOLEAN :
            LET r == directory_like(store, env, ep, err, FALSE)
            IN  IF r.raised
                THEN /\ resp' = TimestampResponse(500, "exception", <<>>)
                     /\ lookup' = SeenNearest(ep, 0, target, <<>>, 0)
                ELSE IF r.rec = 0
                THEN /\ resp' = TimestampResponse(500, "no_recording", <<>>)
                     /\ lookup' = SeenNearest(ep, 0, target, <<>>, 0)
                ELSE IF ~store[r.rec].setup_ok \/ ~target.valid
                THEN /\ resp' = TimestampResponse(500, "exception", <<>>)
                     /\ lookup' = SeenNearest(ep, r.rec, target, <<>>, 0)
                ELSE \E scan \in Frame_query(frames, r.rec, "timestamp") :
                     LET k == select_nearest(scan, target.time)
                     IN  /\ lookup' = SeenNearest(ep, r.rec, target, scan, k)
                         /\ IF k = 0
                            THEN resp' = TimestampResponse(500, "no_frame", <<>>)
                            ELSE \E a \in answers :
                                 LET out == scrpts_process_frame(1, scan[k], a)
                                 IN  resp' = IF out.produced
                                             THEN TimestampResponse(200, "none", <<out.result>>)
                                             ELSE TimestampResponse(500, "exception", <<>>)
    /\ UNCHANGED <<server, bridge, env, resolved, deploy, store, frames>>

MaxRows == 3
MaxIndex == 3

\* The recordings of the store the frames belong to.
FrameStore ==
    <<[directory |-> Dir_aC, setup_ok |-> TRUE], [directory |-> Dir_bC, setup_ok |-> TRUE]>>

\* The rows the frames table is filled with for windowed selection: frames
\* of recording 1 with any index, two frames of recording 2.
FrameRows ==
    {Row(1, i, IF i = 2 THEN NoTimestamp ELSE i) : i \in 1..MaxIndex}
    \cup {Row(2, 1, 1), Row(2, 2, NoTimestamp)}

\* The tables: up to MaxRows rows in any stored order, no two for the same
\* frame of the same recording.
FrameTables ==
    UNION {{tbl \in [1..n -> FrameRows] :
               \A x, y \in 1..n :
                   x # y => <<tbl[x].recordingid, tbl[x].index>> # <<tbl[y].recordingid, tbl[y].index>>} :
           n \in 0..MaxRows}

\* The tables for nearest-timestamp selection: up to MaxRows frames of
\* recording 1, stored in index order, each with any timestamp or none,
\* with or without a frame of recording 2 in front.
TimedTables ==
    UNION {{pre \o [k \in 1..n |-> Row(1, k, ts[k])] :
               ts \in [1..n -> {NoTimestamp, 0, 1, MaxTime}],
               pre \in {<<>>, <<Row(2, 1, 1)>>}} :
           n \in 0..MaxRows}

\* The requests of frame selection.
FrameEndpoints == {Str(Dir_aC), Str(Dir_bC), Str(<<"b">>)}

FrameBodies ==
    {[json |-> "object", recording_endpoint |-> Given(e), count |-> c] :
        e \in FrameEndpoints, c \in -1..MaxRows}

Targets == {[valid |-> FALSE, time |-> 0]} \cup {[valid |-> TRUE, time |-> t] : t \in 0..MaxTime}

\* A literal-matching library: whole directories, no escape character.
LiteralMatch == [escape |-> FALSE, wrap |-> FALSE]

InitFrames ==
    /\ server \in {"Scripts", "Scrpts"}
    /\ bridge = ConnectedBridge(IF server = "Scripts" THEN DefaultConfig ELSE ScrptsDefaultConfig)
    /\ deploy = [horus_available |-> TRUE, settings_password |-> ""]
    /\ env = LiteralMatch
    /\ resolved = NotCalled
    /\ resp = NoResponse
    /\ store = FrameStore
    /\ lookup = NoLookup
    /\ frames \in FrameTables

\* One windowed request from each of these states.
NextFrames ==
    /\ resp = NoResponse
    /\ \/ \E data \in FrameBodies : Images(data, {SdkResult("bytes", <<255>>, TRUE)})
       \/ \E data \in FrameBodies : ImagesScrpts(data, {SdkResult("Image", <<7>>, TRUE)})

SpecFrames == InitFrames /\ [][NextFrames]_vars

InitNearest ==
    /\ server = "Scrpts"
    /\ bridge \in {ConnectedBridge(ScrptsDefaultConfig)}
    /\ deploy = [horus_available |-> TRUE, settings_password |-> ""]
    /\ env = LiteralMatch
    /\ resolved = NotCalled
    /\ resp = NoResponse
    /\ store = FrameStore
    /\ lookup = NoLookup
    /\ frames \in TimedTables

\* One nearest-timestamp request from each of these states.
NextNearest ==
    /\ resp = NoResponse
    /\ \E ep \in FrameEndpoints, target \in Targets :
          ImageByTimestamp(ep, target, {SdkResult("Image", <<7>>, TRUE),
                                        SdkResult("raise", <<>>, FALSE)})

SpecNearest == InitNearest /\ [][NextNearest]_vars

\* The SDK's answers image fetching is exercised with: every failure, every
\* shape, bytes of every length modulo 3, an empty stream included.
SdkAnswers ==
    {SdkResult("raise", <<>>, FALSE), SdkResult("no_image", <<>>, FALSE),
     SdkResult("get_image_raises", <<>>, FALSE), SdkResult("other", <<>>, FALSE),
     SdkResult("getvalue", <<1, 2, 3>>, TRUE), SdkResult("getvalue", <<>>, FALSE),
     SdkResult("Image", <<7>>, TRUE), SdkResult("Image", <<7>>, FALSE)}
    \cup {SdkResult("BytesIO", b, TRUE) : b \in {<<>>, <<255>>}}
    \cup {SdkResult("bytes", <<77, 216>>, TRUE)}

\* What communication.image of the Scrpts bridge is exercised with: an image
\* that can be saved, one that cannot, an object without save, a request
\* that raises.
ScrptsSdkAnswers ==
    {SdkResult("Image", <<7>>, TRUE), SdkResult("Image", <<7>>, FALSE),
     SdkResult("BytesIO", <<255>>, TRUE), SdkResult("raise", <<>>, FALSE)}

\* A table with MaxRows frames of recording 1 and one of recording 2.
FetchTable == [k \in 1..MaxRows |-> Row(1, k, k)] \o <<Row(2, 1, 1)>>

FetchBodies ==
    {[json |-> "object", recording_endpoint |-> Given(Str(Dir_aC)), count |-> c] :
        c \in 1..(MaxRows + 1)}

InitFetch ==
    /\ server \in {"Scripts", "Scrpts"}
    /\ bridge = ConnectedBridge(IF server = "Scripts" THEN DefaultConfig ELSE ScrptsDefaultConfig)
    /\ deploy = [horus_available |-> TRUE, settings_password |-> ""]
    /\ env = LiteralMatch
    /\ resolved = NotCalled
    /\ resp = NoResponse
    /\ store = FrameStore
    /\ lookup = NoLookup
    /\ frames = FetchTable

\* One /images request from each of these states.
NextFetch ==
    /\ resp = NoResponse
    /\ \/ \E data \in FetchBodies : Images(data, SdkAnswers)
       \/ \E data \in FetchBodies : ImagesScrpts(data, ScrptsSdkAnswers)

SpecFetch == InitFetch /\ [][NextFetch]_vars

-----------------------------------------------------------------------------
(* /recordings, and the bridge's requests against one catalog.             *)

\* As Recordings, deleting the rows of the recordings whose setup does not
\* load instead of passing over them.
RecordingsPruning(query_ok) ==
    /\ resp' = [route |-> "/recordings", status |-> 200, success |-> TRUE,
                recordings |-> <<>>]
    /\ store' = SelectSeq(store, LAMBDA r : r.setup_ok)
    /\ UNCHANGED <<frames, lookup, server, bridge, env, resolved, deploy>>

\* get_recordings (both bridges): without database connection, or without
\* the Horus modules, or when the query raises, the list is empty; the
\* Scripts bridge passes over a recording whose setup does not load.  The
\* route answers success in every case.
get_recordings(b, st, available, query_ok) ==
    IF b.db_connection = 0 \/ ~available \/ ~query_ok THEN <<>>
    ELSE SelectSeq([i \in 1..Len(st) |-> i],
                   LAMBDA i : server = "Scrpts" \/ st[i].setup_ok)

\* /recordings.
Recordings(query_ok) ==
    /\ resp' = [route |-> "/recordings", status |-> 200, success |-> TRUE,
                recordings |-> get_recordings(bridge, store, deploy.horus_available, query_ok)]
    /\ UNCHANGED <<frames, store, lookup, server, bridge, env, resolved, deploy>>

\* The catalogs: two recordings, the first with or without a setup that
\* loads, and the frames of FetchTable.
CatalogStores ==
    {FrameStore,
     <<[directory |-> Dir_aC, setup_ok |-> FALSE], [directory |-> Dir_bC, setup_ok |-> TRUE]>>}

CatalogBodies ==
    {[json |-> "object", recording_endpoint |-> Given(Str(d)), count |-> 1] : d \in {Dir_aC, Dir_bC}}

InitCatalog ==
    /\ server \in {"Scripts", "Scrpts"}
    /\ bridge = ConnectedBridge(IF server = "Scripts" THEN DefaultConfig ELSE ScrptsDefaultConfig)
    /\ deploy = [horus_available |-> TRUE, settings_password |-> ""]
    /\ env = LiteralMatch
    /\ resolved = NotCalled
    /\ resp = NoResponse
    /\ store \in CatalogStores
    /\ lookup = NoLookup
    /\ frames = FetchTable

\* Every request of the bridge that reaches the catalog, and the requests
\* that open and close the connection it is read through.
NextCatalog ==
    \/ \E query_ok \in BOOLEAN : Recordings(query_ok)
    \/ \E data \in CatalogBodies : Images(data, LookupAnswers)
    \/ \E data \in CatalogBodies : ImagesScrpts(data, {SdkResult("Image", <<7>>, TRUE)})
    \/ \E t \in {0, MaxTime} :
          ImageByTimestamp(Str(Dir_aC), [valid |-> TRUE, time |-> t],
                           {SdkResult("Image", <<7>>, TRUE)})
    \/ \E data \in {Body([NoSection EXCEPT !["password"] = "p1"])} :
          ConnectScripts(data, {[first |-> "ok", fix |-> 0]})
    \/ \E data \in {NoDatabaseBody} : ConnectScrpts(data)
    \/ \E close_ok \in BOOLEAN : Disconnect(close_ok)
    \/ Health

SpecCatalog == InitCatalog /\ [][NextCatalog]_vars

-----------------------------------------------------------------------------
(* Claims about the recording lookup, checked under SpecImages.            *)

\* The pattern strategy n hands to the library for the endpoint ep.
PatternOf(n, ep) ==
    CASE n = 1 -> ep
      [] n = 2 -> Str(split_last(ep.str))
      [] n = 3 -> Str(replace_double(ep.str))
      [] OTHER -> Null

\* What strategy n, run alone and without raising, finds in the store.
YieldOf(n, ep) ==
    IF n = 4 THEN FirstIndex(PartialMatches(store, lower(split_last(ep.str))))
    ELSE IF PatternOf(n, ep).null THEN (IF Len(store) > 0 THEN 1 ELSE 0)
    ELSE directory_like(store, env, PatternOf(n, ep), FALSE, FALSE).rec

\* C8: the lookup queries with the full key, then the final segment, then
\* the doubled separators, then scans for a partial match, in this order;
\* it runs no strategy after one that matched, and the recording it returns
\* is the match of the earliest strategy that yielded one.
C8_StrategiesInOrderUntilMatch ==
    lookup.ran =>
        /\ Len(lookup.queries) <= 4
        /\ \A k \in 1..Len(lookup.queries) :
              /\ lookup.queries[k].strategy = k
              /\ lookup.queries[k].filtered = (k < 4)
              /\ k < 4 => lookup.queries[k].pattern = PatternOf(k, lookup.endpoint)
              /\ lookup.search_attempts[k].strategy = k
        /\ \A k \in 1..(Len(lookup.queries) - 1) :
              lookup.search_attempts[k].outcome # "SUCCESS"
        /\ lookup.recording # 0 =>
              LET n == Len(lookup.queries)
              IN  /\ lookup.search_attempts[n].outcome = "SUCCESS"
                  /\ lookup.recording = YieldOf(n, lookup.endpoint)
                  /\ resp.status = 200 => resp.recording = lookup.recording

\* C8 witness: the full key matches nothing and the final segment does, so
\* the lookup stops after its second strategy.
C8_Witness ==
    /\ lookup.ran
    /\ lookup.err = {}
    /\ lookup.recording # 0
    /\ Len(lookup.queries) = 2
    /\ lookup.search_attempts[1].outcome = "FAILED"
    /\ lookup.search_attempts[2].outcome = "SUCCESS"
    /\ resp.status = 200

\* C9 (as claimed): when the lookup matches no recording, /images answers
\* 404 and the response lists four entries, one for each strategy in the
\* order they ran, each saying that the strategy found nothing or raised.
C9_NotFoundListsFourAttempts ==
    (lookup.ran /\ lookup.recording = 0) =>
        /\ resp.status = 404
        /\ Len(resp.search_attempts) = 4
        /\ \A k \in 1..Len(resp.search_attempts) :
              /\ resp.search_attempts[k].strategy = k
              /\ resp.search_attempts[k].outcome \in {"FAILED", "ERROR"}

\* A directory that is a backslash-separated path ending in the segment seg.
EndsInSegment(directory, seg) ==
    /\ \E k \in 1..Len(directory) : directory[k] = Backslash
    /\ split_last(directory) = seg

\* The endpoint is a string without a backslash: a bare segment.
BareKey == lookup.ran /\ ~lookup.endpoint.null /\ split_last(lookup.endpoint.str) = lookup.endpoint.str

\* C10 (as claimed): a search by the key C, none of whose queries raises,
\* locates every recording whose directory is a backslash-separated path
\* ending in segment C, and it does so through strategy 2.
C10_SegmentKeyLocatesThroughStrategy2 ==
    (BareKey /\ lookup.err = {}) =>
        \A i \in 1..Len(store) :
            EndsInSegment(store[i].directory, lookup.endpoint.str) =>
                /\ lookup.recording = i
                /\ Len(lookup.search_attempts) = 2
                /\ lookup.search_attempts[2].outcome = "SUCCESS"

\* C10 (amended): for a key C without a backslash, strategies 1 to 3 issue
\* the same query, so strategy 2 matches only when strategy 1 raised; a
\* match of strategy 4 is the first recording in store order whose setup
\* loads and whose lower-cased final segment contains, or is contained in,
\* lower-cased C; and when no query raises and some recording whose setup
\* loads ends in segment C, a recording is located, which is that recording
\* when the store holds no other.
C10_SegmentKeyLocatesFirstMatch ==
    BareKey =>
        /\ \A k \in 1..Len(lookup.queries) :
              lookup.queries[k].filtered => lookup.queries[k].pattern = lookup.endpoint
        /\ (Len(lookup.search_attempts) >= 2 /\ lookup.search_attempts[2].outcome = "SUCCESS")
              => lookup.search_attempts[1].outcome = "ERROR"
        /\ (Len(lookup.search_attempts) = 4 /\ lookup.search_attempts[4].outcome = "SUCCESS")
              => /\ lookup.recording \in PartialMatches(store, lower(lookup.endpoint.str))
                 /\ \A j \in PartialMatches(store, lower(lookup.endpoint.str)) :
                       lookup.recording <= j
        /\ (/\ lookup.err = {}
            /\ \E i \in 1..Len(store) :
                  store[i].setup_ok /\ EndsInSegment(store[i].directory, lookup.endpoint.str))
              => /\ lookup.recording # 0
                 /\ Len(store) = 1 => (lookup.recording = 1 /\ resp.status = 200)

\* C10 witness: two recordings end in segment C, the library matches whole
\* directories only, and the search by C returns the first of them through
\* strategy 4.
C10_Witness ==
    /\ BareKey
    /\ lookup.endpoint.str = <<"C">>
    /\ lookup.err = {}
    /\ Len(store) = 2
    /\ EndsInSegment(store[1].directory, <<"C">>)
    /\ EndsInSegment(store[2].directory, <<"C">>)
    /\ store[1].directory # store[2].directory
    /\ Len(lookup.search_attempts) = 4
    /\ lookup.search_attempts[4].outcome = "SUCCESS"
    /\ lookup.recording = 1

-----------------------------------------------------------------------------
(* Claims about frame selection.                                           *)

\* The frames of the recording the last request located.
FramesOfLocated == {frames[i] : i \in RowsOf(frames, lookup.recording)}

\* The last request was a windowed request that located a recording whose
\* setup loads and asked for a count of at least 0.
WindowedSelection ==
    /\ resp.route = "/images"
    /\ lookup.ran
    /\ lookup.recording # 0
    /\ ~lookup.crashed
    /\ store[lookup.recording].setup_ok
    /\ lookup.count >= 0

\* C11 (SpecFrames): in windowed mode the selected frames are at most count
\* in number, are frames of the located recording, come in ascending index
\* order without repetition, and are the count lowest-index frames of the
\* recording (all of its frames when it has fewer).
C11_WindowIsLowestIndexes ==
    WindowedSelection =>
        LET sel == lookup.selected
            chosen == {sel[k] : k \in 1..Len(sel)}
        IN  /\ Len(sel) <= lookup.count
            /\ chosen \subseteq FramesOfLocated
            /\ \A k \in 1..(Len(sel) - 1) : sel[k].index < sel[k + 1].index
            /\ Len(sel) = (IF lookup.count < Cardinality(FramesOfLocated)
                           THEN lookup.count ELSE Cardinality(FramesOfLocated))
            /\ \A x \in chosen, y \in FramesOfLocated \ chosen : x.index < y.index

\* C11 witness: the recording has three frames stored out of index order,
\* beside frames of another recording or not, and two are asked for.
C11_Witness ==
    /\ WindowedSelection
    /\ resp.status = 200
    /\ Cardinality(FramesOfLocated) = 3
    /\ frames[1].index = 3
    /\ lookup.count = 2
    /\ Len(lookup.selected) = 2
    /\ lookup.selected[1].index = 1

\* C12 (SpecFrames): in windowed mode a count of 0, or a recording without
\* frames, is answered with success and an empty image list.
C12_EmptyWindowIsSuccess ==
    (WindowedSelection /\ (lookup.count = 0 \/ FramesOfLocated = {})) =>
        /\ resp.status = 200
        /\ resp.success
        /\ resp.images = <<>>

\* C12 witness: count 0 on a recording that has frames, on either bridge.
C12_Witness ==
    /\ WindowedSelection
    /\ lookup.count = 0
    /\ FramesOfLocated # {}
    /\ resp.status = 200
    /\ resp.images = <<>>

\* The last request was a nearest-timestamp request that located a
\* recording and whose timestamp parses.
NearestSelection ==
    /\ resp.route = "/image"
    /\ lookup.ran
    /\ lookup.recording # 0
    /\ lookup.target.valid

\* The frames of the located recording that have a timestamp.
Timed == {f \in FramesOfLocated : f.timestamp # NoTimestamp}

\* The distance of a frame to the target of the last request.
Distance(f) == Abs(f.timestamp - lookup.target.time)

\* C13 (SpecNearest): in nearest-timestamp mode, when some frame of the
\* recording has a timestamp a frame is selected, and no frame of the
\* recording that has a timestamp is nearer to the target than it.
C13_NearestIsMinimal ==
    (NearestSelection /\ Timed # {}) =>
        /\ lookup.selected # 0
        /\ lookup.scan[lookup.selected] \in Timed
        /\ \A f \in Timed : Distance(lookup.scan[lookup.selected]) <= Distance(f)

\* C13 witness: frames at 0, 1 and MaxTime, target 2: the frame at 1.
C13_Witness ==
    /\ NearestSelection
    /\ {f.timestamp : f \in FramesOfLocated} = {0, 1, MaxTime}
    /\ lookup.target.time = 2
    /\ lookup.selected # 0
    /\ lookup.scan[lookup.selected].timestamp = 1
    /\ resp.status = 200

\* C14 (SpecNearest): a frame without timestamp is never selected and
\* raises nothing: a frame is selected exactly when some frame of the
\* recording has a timestamp, and when none has (also when the recording
\* has no frame) the request fails with "No frame found".
C14_NullTimestampsSkipped ==
    NearestSelection =>
        /\ lookup.selected # 0 => lookup.scan[lookup.selected].timestamp # NoTimestamp
        /\ (lookup.selected # 0) = (Timed # {})
        /\ Timed = {} => (resp.status = 500 /\ resp.error = "no_frame")
        /\ resp.error = "no_frame" => Timed = {}

\* C14 witness: every frame of the recording lacks a timestamp.
C14_Witness ==
    /\ NearestSelection
    /\ Cardinality(FramesOfLocated) >= 2
    /\ Timed = {}
    /\ resp.error = "no_frame"

\* C15 (SpecNearest): among frames at the same minimal distance the one
\* that comes first in the scan is selected: every frame with a timestamp
\* that the scan meets before the selected one is strictly farther.
C15_FirstOfEqualDistanceWins ==
    (NearestSelection /\ lookup.selected # 0) =>
        \A j \in 1..(lookup.selected - 1) :
            lookup.scan[j].timestamp # NoTimestamp =>
                Distance(lookup.scan[j]) > Distance(lookup.scan[lookup.selected])

\* C15 witness: frames at 0 and MaxTime, target midway: the frame at 0.
C15_Witness ==
    /\ NearestSelection
    /\ lookup.selected # 0
    /\ lookup.target.time * 2 = MaxTime
    /\ \E j \in 1..Len(lookup.scan) :
          /\ j > lookup.selected
          /\ lookup.scan[j].timestamp = MaxTime
    /\ lookup.scan[lookup.selected].timestamp = 0

-----------------------------------------------------------------------------
(* Claims about image fetching, checked under SpecFetch.                   *)

\* The inverse of b64encode on well-formed input.
RECURSIVE b64decode(_)
b64decode(cs) ==
    IF Len(cs) < 4 THEN <<>>
    ELSE LET b1 == cs[1] * 4 + cs[2] \div 16
             b2 == (cs[2] % 16) * 16 + cs[3] \div 4
             b3 == (cs[3] % 4) * 64 + cs[4]
         IN  IF cs[3] = Pad THEN <<b1>>
             ELSE IF cs[4] = Pad THEN <<b1, b2>>
             ELSE <<b1, b2, b3>> \o b64decode(SubSeq(cs, 5, Len(cs)))

\* The last request was an /images request that selected frames.
FetchRan ==
    /\ resp.route = "/images"
    /\ lookup.ran
    /\ Len(lookup.selected) > 0

\* The three shapes the Scripts bridge recognises.
Recognised == {"BytesIO", "bytes", "Image"}

\* The answers that are failures of the frame: the SDK raises, hands back
\* no image, or the image cannot be encoded.
FrameFailed(a) ==
    \/ a.kind \in {"raise", "no_image", "get_image_raises"}
    \/ a.kind = "Image" /\ ~a.ok

\* An answer that is neither a failure nor of a recognised shape.
UnknownShape(a) == ~FrameFailed(a) /\ a.kind \notin Recognised

\* The answer yields an image on the bridge that served the request: the
\* Scrpts bridge saves whatever it gets as an image, the Scripts bridge
\* encodes the recognised shapes and any object whose getvalue returns.
Yields(a) ==
    IF server = "Scrpts" THEN a.kind = "Image" /\ a.ok
    ELSE /\ ~FrameFailed(a)
         /\ a.kind \in Recognised \/ (a.kind = "getvalue" /\ a.ok)

\* The selected frames whose answer yields an image.
YieldingFrames == {k \in 1..Len(lookup.selected) : Yields(lookup.answers[k])}

\* The entries of the response made for the k-th selected frame.
ResultsFor(k) == {j \in 1..Len(resp.images) : resp.images[j].Index = k - 1}

\* The response is a success with exactly one ImageResult for each selected
\* frame that yields an image, in selection order.
OneResultPerYieldingFrame ==
    /\ resp.status = 200
    /\ resp.success
    /\ Len(resp.images) = Cardinality(YieldingFrames)
    /\ \A k \in 1..Len(lookup.selected) :
          Cardinality(ResultsFor(k)) = (IF k \in YieldingFrames THEN 1 ELSE 0)
    /\ \A j \in 1..(Len(resp.images) - 1) :
          resp.images[j].Index < resp.images[j + 1].Index

\* C16 (SpecFetch), as the claim states it: a frame that fails never fails
\* the request, the response holds one ImageResult per frame that did not
\* fail, and it reports the number produced against the number requested.
C16_ReportsProducedAgainstRequested ==
    FetchRan =>
        /\ OneResultPerYieldingFrame
        /\ resp.message.retrieved = Len(resp.images)
        /\ "requested" \in DOMAIN resp.message

\* C16 (SpecFetch), amended: a frame that fails never fails the request,
\* the response holds one ImageResult per frame that did not fail, and its
\* message names the number produced and no other number; which frame
\* failed appears only in the log, one entry per failed frame.
C16_FailedFramesSkipped ==
    FetchRan =>
        /\ OneResultPerYieldingFrame
        /\ DOMAIN resp.message = {"text", "retrieved"}
        /\ resp.message.retrieved = Len(resp.images)
        /\ \A k \in 1..Len(lookup.selected) :
              FrameFailed(lookup.answers[k]) => lookup.logged[k] # "none"

\* C16 witness: three frames selected, the SDK raises on the second.
C16_Witness ==
    /\ FetchRan
    /\ server = "Scripts"
    /\ Len(lookup.selected) = 3
    /\ lookup.answers[1].kind = "bytes"
    /\ lookup.answers[2].kind = "raise"
    /\ lookup.answers[3].kind = "Image" /\ lookup.answers[3].ok
    /\ Len(resp.images) = 2
    /\ resp.images[2].Index = 2
    /\ resp.message.retrieved = 2

\* The selected frames of a Scripts request whose answer is of unknown shape.
UnknownFrames ==
    IF FetchRan /\ server = "Scripts"
    THEN {k \in 1..Len(lookup.selected) : UnknownShape(lookup.answers[k])}
    ELSE {}

RecognisedFrames ==
    IF FetchRan /\ server = "Scripts"
    THEN {k \in 1..Len(lookup.selected) :
             /\ lookup.answers[k].kind \in Recognised
             /\ ~FrameFailed(lookup.answers[k])}
    ELSE {}

\* C18 (SpecFetch): for an answer of a recognised shape one ImageResult is
\* produced whose Data decodes to a non-empty byte sequence, the SDK's
\* bytes for a stream or raw bytes and the JPEG encoding for an image.
C18_RecognisedShapesDecodeNonEmpty ==
    \A k \in RecognisedFrames :
        LET a == lookup.answers[k]
        IN  /\ Cardinality(ResultsFor(k)) = 1
            /\ \A j \in ResultsFor(k) :
                  LET bytes == b64decode(resp.images[j].Data)
                  IN  /\ bytes # <<>>
                      /\ bytes = (IF a.kind = "Image" THEN JpegEncode(a.bytes) ELSE a.bytes)

\* C18 failing input: an empty stream or empty bytes from the SDK is answered
\* with an ImageResult whose Data is empty.
C18_EmptyData ==
    \E k \in RecognisedFrames :
        /\ lookup.answers[k].bytes = <<>>
        /\ \E j \in ResultsFor(k) : resp.images[j].Data = <<>>

-----------------------------------------------------------------------------
(* Claims about the stages of /test-db, checked under SpecResolver.        *)

\* The stages of /test-db in the order the claim gives them.
StageOrder == <<"network_connectivity", "postgresql_service", "authentication">>

\* C19 (SpecResolver): /test-db runs its stages in the order network,
\* service, authentication, runs a stage only when every earlier one has
\* passed, and answers a failed stage with 400 and the name of that stage,
\* the first that failed; the connection variants are not tried unless
\* both probes have passed.
C19_FirstFailingStageReported ==
    (resp.route = "/test-db" /\ resp.step_failed # "missing_fields") =>
        LET st == resp.stages
            n == Len(st)
        IN  /\ n \in 1..Len(StageOrder)
            /\ \A k \in 1..n : st[k].stage = StageOrder[k]
            /\ \A k \in 1..(n - 1) : st[k].ok
            /\ ~st[n].ok => /\ resp.status = 400
                            /\ ~resp.success
                            /\ resp.step_failed = st[n].stage
            /\ st[n].ok => n = Len(StageOrder)
            /\ resp.step_failed \in {StageOrder[k] : k \in 1..Len(StageOrder)}
                  => ~st[n].ok
            /\ resolved.called = (n = Len(StageOrder))

\* C19 witness: the network probe fails where the first connection variant
\* would have connected; only the network stage has run.
C19_Witness ==
    /\ resp.route = "/test-db"
    /\ resp.step_failed = "network_connectivity"
    /\ resp.stages = <<[stage |-> "network_connectivity", ok |-> FALSE]>>
    /\ resolved = NotCalled
    /\ env[1] = "ok"

-----------------------------------------------------------------------------
(* Claims about reconfiguration, checked under SpecBridge.                 *)

\* The last request ran update_config with a database section.
Reconfigured == resp.route \in {"/connect", "/config"} /\ resp.updated

\* The password dict.update leaves for the last request.
MergedPassword ==
    IF resp.section["password"] = Absent THEN resp.config_before["password"]
    ELSE resp.section["password"]

\* C20 (SpecBridge), as the claim states it: after update_config with a
\* database section the configuration holds the supplied fields and no
\* value for a field the section omits.
C20_ConfigReplacedWholesale ==
    Reconfigured =>
        \A f \in Fields :
            bridge.db_config[f] = (IF resp.section[f] = Absent THEN "" ELSE resp.section[f])

\* C20 (SpecBridge), amended: update_config merges the section into the
\* stored configuration: a supplied field takes the supplied value and an
\* omitted field keeps the previous one; the password of the merged
\* configuration is replaced only by /connect of the Scripts bridge, with
\* the settings password when it is empty or with a fix of it that logs in.
C20_ConfigMerged ==
    Reconfigured =>
        /\ \A f \in Fields \ {"password"} :
              bridge.db_config[f] = (IF resp.section[f] = Absent
                                     THEN resp.config_before[f] ELSE resp.section[f])
        /\ \/ bridge.db_config["password"] = MergedPassword
           \/ /\ server = "Scripts" /\ resp.route = "/connect"
              /\ \/ MergedPassword = "" /\ bridge.db_config["password"] = deploy.settings_password
                 \/ \E i \in 1..Len(Fixes(MergedPassword)) :
                       bridge.db_config["password"] = Fixes(MergedPassword)[i]

\* C20 witness: a section with a new host and no port, database or user:
\* the new host is stored beside the previous port, database and user.
C20_Witness ==
    /\ Reconfigured
    /\ resp.section["host"] \notin {Absent, resp.config_before["host"]}
    /\ bridge.db_config["host"] = resp.section["host"]
    /\ \A f \in {"port", "database", "user"} :
          /\ resp.section[f] = Absent
          /\ resp.config_before[f] # ""
          /\ bridge.db_config[f] = resp.config_before[f]

-----------------------------------------------------------------------------
(* Claims about retries, checked under SpecConnect.                        *)

\* The last request was a /connect of the Scripts bridge that ran
\* update_config with a database section.
ScriptsReconfigured == server = "Scripts" /\ resp.route = "/connect" /\ resp.updated

\* C21 (SpecConnect): a /connect request whose first database login fails
\* makes no further login: a request rejected because the password does not
\* work has called psycopg2.connect once, and the stored password is the one
\* update_config left (the settings password when that one is empty).
C21_NoRetryWithAlteredPassword ==
    ScriptsReconfigured =>
        /\ resp.error = "password_failed" => resp.connects = 1
        /\ \/ bridge.db_config["password"] = MergedPassword
           \/ /\ MergedPassword = ""
              /\ bridge.db_config["password"] = deploy.settings_password

\* C21 failing input: the received password is rejected and so are its four
\* altered forms: five logins in one request.
C21_FiveLogins ==
    /\ ScriptsReconfigured
    /\ resp.error = "password_failed"
    /\ resp.connects = 1 + Len(Fixes(MergedPassword))

-----------------------------------------------------------------------------
(* Claims about /health, checked under SpecBridge.                         *)

\* The bridge with another password stored.
WithPassword(b, p) == [b EXCEPT !.db_config["password"] = p]

\* C22 (SpecBridge): the /health payload depends on the stored password
\* only through whether it is set: it is the payload of every state that
\* differs from this one in a set password alone, and not the payload of
\* the state without password.
C22_HealthIndependentOfPassword ==
    (resp.route = "/health" /\ bridge.db_config["password"] # "") =>
        /\ \A p \in Passwords \ {""} : resp.health = health_check(WithPassword(bridge, p))
        /\ resp.health # health_check(WithPassword(bridge, ""))

\* C22 witness: /health of a Scripts bridge that stores a password.
C22_Witness ==
    /\ resp.route = "/health"
    /\ server = "Scripts"
    /\ bridge.db_config["password"] = "p1"
    /\ resp.health.config.db_password_set = TRUE
    /\ resp.health.database_connected

-----------------------------------------------------------------------------
(* Claims about the catalog, checked under SpecCatalog.                    *)

\* Every frame references a recording of the catalog.
FramesReferenceRecordings ==
    \A i \in 1..Len(frames) : frames[i].recordingid \in 1..Len(store)

\* C23 (SpecCatalog): no request creates, updates or deletes a Recording
\* or Frame row: every step leaves both tables as they are, and every frame
\* references an existing recording throughout.
C23_CatalogReadOnly ==
    /\ []FramesReferenceRecordings
    /\ [][store' = store /\ frames' = frames]_vars

\* C23 witness: /recordings has listed a catalog one of whose recordings
\* does not load, after which the rows are all there.
C23_Witness ==
    /\ resp.route = "/recordings"
    /\ server = "Scripts"
    /\ \E i \in 1..Len(store) : ~store[i].setup_ok
    /\ Len(resp.recordings) = Len(store) - 1
    /\ frames = FetchTable
    /\ FramesReferenceRecordings

-----------------------------------------------------------------------------
(* Claims about /connect and the resolver, checked under SpecVariants.     *)

\* Some variant of the resolver's list other than the first would connect
\* for the stored configuration, and the first would not.
OnlyLaterVariantConnects ==
    /\ env[1] # "ok"
    /\ \E k \in 2..Len(ConnectionMethods) : env[k] = "ok"

\* C24 (SpecVariants): /connect reports database_connected = true whenever
\* some variant of the connection-string list would succeed for the
\* supplied configuration, also when the first one does not.
C24_ConnectUsesResolver ==
    (ScriptsReconfigured /\ OnlyLaterVariantConnects) =>
        /\ resp.status = 200
        /\ resp.database_connected
        /\ bridge.db_connection # 0

\* C24 failing input: the server refuses the key=value string and accepts
\* the SSL Disabled variant; /connect rejects the password and connects
\* nothing.
C24_LaterVariantUnused ==
    /\ ScriptsReconfigured
    /\ env[1] = "connect:OperationalError"
    /\ env[4] = "ok"
    /\ resp.status = 400
    /\ resp.error = "password_failed"
    /\ ~resp.database_connected
    /\ bridge.db_connection = 0
    /\ try_connection_methods(env).method = "SSL Disabled"

-----------------------------------------------------------------------------
(* Requests in flight at once.  Both servers run app.run(threaded=True):   *)
(* each request runs in a thread of its own, over the one bridge object,   *)
(* without a lock.  Under SpecRace resp holds the two requests in flight:  *)
(* an /images request, and a /disconnect or /connect request beside it,    *)
(* each with the place it has reached in its handler.                      *)

\* The reads get_images makes of the shared handles after its connectivity
\* check, in program order.
ImagesReads(srv) ==
    IF srv = "Scripts"
    THEN <<"db_connection", "client", "db_connection">>
    ELSE <<"db_connection", "db_connection", "client">>

\* No request beside the /images request.
Idle == [route |-> None, pc |-> "done"]

\* What a read of the attribute attr of the bridge b sees, while the request
\* beside it is at other: between db_connection.close() and the assignment
\* of None, db_connection is a closed connection.
ReadHandle(b, other, attr) ==
    IF attr = "client"
    THEN IF b.client = 0 THEN "none" ELSE "live"
    ELSE IF b.db_connection = 0 THEN "none"
         ELSE IF other.route = "/disconnect" /\ other.pc = "closed" THEN "closed"
         ELSE "open"

\* get_images, the connectivity check: one step of the /images request.
ImagesCheck ==
    /\ resp.images.pc = "check"
    /\ resp' = [resp EXCEPT !.images.pc =
                   IF bridge.client = 0 \/ ~bridge.is_connected \/ bridge.db_connection = 0
                   THEN "refused" ELSE "read"]
    /\ UNCHANGED <<frames, store, lookup, server, bridge, env, resolved, deploy>>

\* get_images, one read of a shared handle after the check: Recordings(
\* bridge.db_connection), set_network_client(bridge.client), Frames(
\* bridge.db_connection).  The request goes on only with a usable handle.
ImagesRead ==
    /\ resp.images.pc = "read"
    /\ LET attr == Head(resp.images.reads)
           saw == ReadHandle(bridge, resp.other, attr)
           seen == Append(resp.images.seen, saw)
       IN  resp' = [resp EXCEPT !.images =
                       [pc |-> IF saw \in {"none", "closed"} THEN "failed"
                               ELSE IF Len(resp.images.reads) = 1 THEN "done" ELSE "read",
                        reads |-> Tail(resp.images.reads), seen |-> seen]]
    /\ UNCHANGED <<frames, store, lookup, server, bridge, env, resolved, deploy>>

\* A /disconnect or /connect request arrives beside the /images request.
Arrive(route) ==
    /\ resp.other.pc = "done"
    /\ resp.images.pc \in {"check", "read"}
    /\ resp' = [resp EXCEPT !.other = [route |-> route, pc |-> "start"]]
    /\ UNCHANGED <<frames, store, lookup, server, bridge, env, resolved, deploy>>

\* disconnect, statement by statement: client = None, is_connected = False,
\* db_connection.close(), db_connection = None.
DisconnectStep(close_ok) ==
    /\ resp.other.route = "/disconnect"
    /\ LET pc == resp.other.pc
       IN  CASE pc = "start" ->
                  IF bridge.client # 0
                  THEN /\ bridge' = [bridge EXCEPT !.client = 0]
                       /\ resp' = [resp EXCEPT !.other.pc = "client_cleared"]
                  ELSE /\ bridge' = bridge
                       /\ resp' = [resp EXCEPT !.other.pc = "database"]
             [] pc = "client_cleared" ->
                  /\ bridge' = [bridge EXCEPT !.is_connected = FALSE]
                  /\ resp' = [resp EXCEPT !.other.pc = "database"]
             [] pc = "database" ->
                  IF bridge.db_connection # 0 /\ close_ok
                  THEN /\ bridge' = [bridge EXCEPT !.handles = Close(@, "slot")]
                       /\ resp' = [resp EXCEPT !.other.pc = "closed"]
                  ELSE /\ bridge' = bridge
                       /\ resp' = [resp EXCEPT !.other.pc = "done"]
             [] pc = "closed" ->
                  /\ bridge' = [bridge EXCEPT !.db_connection = 0,
                                              !.connection_method = None]
                  /\ resp' = [resp EXCEPT !.other.pc = "done"]
             [] OTHER -> FALSE
    /\ UNCHANGED <<frames, store, lookup, server, env, resolved, deploy>>

\* /connect past its checks, call by call: connect_database and then
\* connect_horus in the Scripts bridge, connect_horus and then
\* connect_database in the Scrpts bridge.
ConnectStep ==
    /\ resp.other.route = "/connect"
    /\ HandlesLeft(bridge)
    /\ LET pc == resp.other.pc
           first == IF server = "Scripts" THEN "database" ELSE "horus"
           step == IF pc = "start" THEN first ELSE pc
       IN  CASE step = "database" ->
                  \E out \in DbOutcomes, fin \in BOOLEAN :
                     LET d == IF server = "Scripts"
                              THEN connect_database(bridge, out, fin)
                              ELSE scrpts_connect_database(bridge, NoSection, out, fin)
                     IN  /\ bridge' = d.b
                         /\ resp' = [resp EXCEPT !.other.pc =
                                        IF server = "Scripts" /\ d.ok /\ deploy.horus_available
                                        THEN "horus" ELSE "done"]
             [] step = "horus" ->
                  \E client_ok \in BOOLEAN :
                     /\ bridge' = connect_horus(bridge, TRUE, client_ok).b
                     /\ resp' = [resp EXCEPT !.other.pc =
                                    IF server = "Scripts" THEN "done" ELSE "database"]
             [] OTHER -> FALSE
    /\ UNCHANGED <<frames, store, lookup, server, env, resolved, deploy>>

InitRace ==
    /\ server \in {"Scripts", "Scrpts"}
    /\ bridge \in {ConnectedBridge(ScrptsDefaultConfig), NewBridge(ScrptsDefaultConfig)}
    /\ deploy = [horus_available |-> TRUE, settings_password |-> ""]
    /\ env = [k \in 1..Len(ConnectionMethods) |-> "ok"]
    /\ resolved = NotCalled
    /\ store = <<>>
    /\ lookup = NoLookup
    /\ frames = <<>>
    /\ resp = [route |-> "/images",
               images |-> [pc |-> "check", reads |-> ImagesReads(server), seen |-> <<>>],
               other |-> Idle]

NextRace ==
    \/ ImagesCheck
    \/ ImagesRead
    \/ \E route \in {"/disconnect", "/connect"} : Arrive(route)
    \/ \E close_ok \in BOOLEAN : DisconnectStep(close_ok)
    \/ ConnectStep

SpecRace == InitRace /\ [][NextRace]_vars

-----------------------------------------------------------------------------
(* Claims about requests in flight at once, checked under SpecRace.        *)

\* C25 (SpecRace): once an /images request has passed its connectivity
\* check, every read it makes of bridge.db_connection and bridge.client
\* sees an open connection and a live client, whatever /disconnect and
\* /connect requests run beside it.
C25_NoStaleHandle ==
    \A i \in 1..Len(resp.images.seen) : resp.images.seen[i] \in {"open", "live"}

\* C25 failing input: /images passes its check on a connected bridge, and
\* reads db_connection after the close() of a /disconnect beside it and
\* before its assignment of None.
C25_ReadsClosedConnection ==
    /\ resp.images.pc = "failed"
    /\ resp.images.seen = <<"closed">>
    /\ resp.other = [route |-> "/disconnect", pc |-> "closed"]
    /\ bridge.db_connection # 0

-----------------------------------------------------------------------------
(* Claims about /connect and the state it leaves, checked under SpecBridge *)
(* (C26) and SpecConnect.                                                  *)

\* A /connect request has just returned its result payload.
ConnectReturned == resp.route = "/connect" /\ resp.status = 200

\* C26 (SpecBridge): right after a /connect request returns its result
\* payload, /health reports the horus_connected and database_connected that
\* /connect reported.
C26_HealthAgreesWithConnect ==
    ConnectReturned =>
        /\ health_check(bridge).horus_connected = resp.horus_connected
        /\ health_check(bridge).database_connected = resp.database_connected

\* C26 failing input: a connected Scripts bridge, then a /connect whose
\* database login fails: connect_horus is skipped, is_connected stays True.
C26_StaleHorusFlag ==
    /\ server = "Scripts"
    /\ ConnectReturned
    /\ ~resp.horus_connected
    /\ ~resp.database_connected
    /\ health_check(bridge).horus_connected
    /\ ~health_check(bridge).database_connected
    /\ bridge.client # 0

\* The shared handles of the bridge b.
SharedHandles(b) == <<b.db_connection, b.client, b.is_connected>>

C28_ResponseIndependentOfPassword ==
    (ScriptsReconfigured /\ bridge.db_config["password"] # "") =>
        \A p \in {"p1", "p2", "p1 "} :
            connect_debug_info(resp, WithPassword(bridge, p)) = connect_debug_info(resp, bridge)

\* C28 failing input: the password "p1" is rejected, and the 400 answer
\* spells it out twice in password_sample.
C28_PasswordInSample ==
    /\ ScriptsReconfigured
    /\ resp.error = "password_failed"
    /\ bridge.db_config["password"] = "p1"
    /\ connect_debug_info(resp, bridge).password_sample = <<"p", "1", "*", "*", "*", "p", "1">>
    /\ connect_debug_info(resp, bridge).password_length = 2

-----------------------------------------------------------------------------
(* Claims about the partial matching of the lookup, checked under          *)
(* SpecImages.                                                             *)

\* The lookup of the last /images request ended with a match of Method 4.
FoundByMethod4 ==
    /\ resp.route = "/images"
    /\ lookup.ran
    /\ lookup.recording # 0
    /\ lookup.search_attempts # <<>>
    /\ lookup.search_attempts[Len(lookup.search_attempts)] = [strategy |-> 4, outcome |-> "SUCCESS"]

\* C29 (SpecImages): a recording returned by Method 4 has a non-empty
\* directory, and its lower-cased final segment and the key's contain one
\* another through a non-empty string; a key whose final segment is empty
\* gets no recording from Method 4.
C29_PartialMatchThroughNonEmpty ==
    FoundByMethod4 =>
        LET directory == store[lookup.recording].directory
            rec_name == lower(split_last(directory))
            target_name == lower(split_last(lookup.endpoint.str))
        IN  /\ directory # <<>>
            /\ target_name # <<>>
            /\ \/ contains(target_name, rec_name)
               \/ rec_name # <<>> /\ contains(rec_name, target_name)

\* C29 failing input: the key "C\" ends in a separator; Method 4 returns the
\* first recording, whose directory "R\L" has nothing in common with it.
C29_EmptyTargetMatches ==
    /\ FoundByMethod4
    /\ lookup.endpoint = Str(<<"C", Backslash>>)
    /\ lookup.recording = 1
    /\ store[1].directory = DefaultEndpoint.str

-----------------------------------------------------------------------------
(* Claims about the order of the two connections of /connect, checked      *)
(* under SpecBridge.                                                       *)

\* C30 (SpecBridge): in every /connect payload of the Scripts bridge
\* horus_connected implies database_connected, and a /connect whose
\* database step does not succeed creates no client: client and
\* is_connected stay as they were.
C30_HorusOnlyAfterDatabase ==
    [][(server = "Scripts" /\ resp'.route = "/connect") =>
            /\ resp'.horus_connected => resp'.database_connected
            /\ resp'.horus_connected => (bridge'.client # 0 /\ bridge'.db_connection # 0)
            /\ ~resp'.database_connected =>
                  (bridge'.client = bridge.client /\ bridge'.is_connected = bridge.is_connected)]_vars

\* C30 witness: a /connect of the Scripts bridge has connected the database
\* and then created the client.
C30_Witness ==
    /\ server = "Scripts"
    /\ ConnectReturned
    /\ resp.database_connected
    /\ resp.horus_connected
    /\ bridge.client # 0
    /\ bridge.is_connected
    /\ bridge.db_connection # 0

=============================================================================
